---- MODULE Spec2Model ----
(***************************************************************************)
(* State-machine model of the 3DS render backend of TheXTech               *)
(* (src/src/core/3ds/render_3ds.cpp): the frame controller, the            *)
(* composition layers and their recreation, the repaint stage, the draw    *)
(* primitives and the texture loader.                                      *)
(*                                                                         *)
(* Every operation of namespace XRender is one action.  Besides the        *)
(* program's own variables the model keeps                                 *)
(*   - the state of the graphics backend the code drives (whether a        *)
(*     backend frame is open, which target the current scene draws to),    *)
(*   - op / calls: the operation taken last and the backend calls it made, *)
(*     in order, so that properties of one call can be read off a state.   *)
(* The touch-screen controller (src/src/control/touchscreen.cpp) is the    *)
(* object touch, with processTouchDevice as its one action.                *)
(***************************************************************************)
EXTENDS Integers, Sequences, FiniteSets, TLC

VARIABLES
    g_in_frame,            \* bool g_in_frame
    s_current_frame,       \* uint32_t s_current_frame
    g_screen_swapped,      \* bool g_screen_swapped
    s_single_layer_mode,   \* bool s_single_layer_mode
    s_tex_w, s_tex_h, s_tex_show_w,
    s_layer_targets,       \* [0..3 -> BOOLEAN]: s_layer_targets[i] != nullptr
    s_layer_texs,          \* [0..3 -> [w, h]]: allocated size of s_layer_texs[i]
    s_layer_subtexs,       \* [0..3 -> sub-region descriptor]
    s_cur_target,          \* C3D_RenderTarget* s_cur_target
    s_num_textures_loaded, \* int s_num_textures_loaded
    pics,                  \* the StdPicture objects, by index
    frame_open,            \* backend: C3D_FrameBegin called, C3D_FrameEnd not yet
    scene,                 \* backend: target of the last C2D_SceneBegin
    layer_clears,          \* history: clears of layer i since the last presentation
    layer_dirty,           \* history: a draw reached layer i before its clear
    op,                    \* the last operation
    calls,                 \* the backend calls the last operation made
    touch,                 \* the TouchScreenController object
    ret                    \* what the last operation wrote through its out-parameters

frameVars   == <<g_in_frame, s_current_frame>>
layerVars   == <<g_screen_swapped, s_single_layer_mode, s_tex_w, s_tex_h,
                 s_tex_show_w, s_layer_targets, s_layer_texs, s_layer_subtexs>>
backendVars == <<frame_open, scene>>
histVars    == <<layer_clears, layer_dirty>>
texVars     == <<s_num_textures_loaded, pics>>
hostVars    == <<touch, ret>>
vars == <<g_in_frame, s_current_frame, g_screen_swapped,
          s_single_layer_mode, s_tex_w, s_tex_h, s_tex_show_w, s_layer_targets,
          s_layer_texs, s_layer_subtexs, s_cur_target, s_num_textures_loaded,
          pics, frame_open, scene, layer_clears, layer_dirty, op, calls, touch, ret>>

-----------------------------------------------------------------------------
(* Bounds of the model *)

\* repaint() is not taken any more once s_current_frame has reached MaxFrames
MaxFrames == 2
\* number of StdPicture objects of the texture-loader specification
NumTex == 2

Layers == 0 .. 3

-----------------------------------------------------------------------------
(* Render targets *)

Target(k, n) == [k |-> k, n |-> n]
Null     == Target("null", 0)
Top      == Target("top", 0)       \* s_top_screen
Right    == Target("right", 0)     \* s_right_screen
Bottom   == Target("bottom", 0)    \* s_bottom_screen
Layer(i) == Target("layer", i)     \* s_layer_targets[i], allocated
Stale(i) == Target("stale", i)     \* pointer to a deleted s_layer_targets[i]

\* the value of the pointer s_layer_targets[i]
LayerPtr(i) == IF s_layer_targets[i] THEN Layer(i) ELSE Null

\* a backend call: function name, the render target it acts on, integer arguments
Call(f, t, a) == [f |-> f, t |-> t, a |-> a]
Plain(f)      == Call(f, Null, <<>>)

Names(cs) == { cs[k].f : k \in 1 .. Len(cs) }
Count(cs, f) == Cardinality({ k \in 1 .. Len(cs) : cs[k].f = f })
FirstIdx(cs, f) ==
    IF f \in Names(cs)
    THEN CHOOSE k \in 1 .. Len(cs) : cs[k].f = f /\ \A j \in 1 .. (k - 1) : cs[j].f # f
    ELSE 0

Min(a, b) == IF a < b THEN a ELSE b
Max(a, b) == IF a > b THEN a ELSE b

\* C integer division (truncation toward zero), b # 0
DivC(a, b) ==
    IF (a >= 0) = (b > 0) \/ a = 0
    THEN (IF a >= 0 THEN a ELSE -a) \div (IF b > 0 THEN b ELSE -b)
    ELSE -((IF a >= 0 THEN a ELSE -a) \div (IF b > 0 THEN b ELSE -b))

-----------------------------------------------------------------------------
(* Inputs of the frame-controller specification *)

\* values of the globals ScreenW, ScreenH at a call of minport_ApplyPhysCoords
Resolutions == { <<800, 480>>, <<1280, 720>> }
\* readings of osGet3DSliderState(), in hundredths
Depths == { 0, 5, 6, 30 }
\* the viewport globals read by minport_ApplyViewport
Viewport(x, y, w, h, ign) == [x |-> x, y |-> y, w |-> w, h |-> h, ignore |-> ign]
Viewports == { Viewport(-8, 100, 300, 300, FALSE) }
\* rectangles handed to minport_RenderBoxFilled
Rects == { <<0, 0, 16, 16>> }

-----------------------------------------------------------------------------
(* s_destroySceneTargets / s_createSceneTargets *)

\* s_destroySceneTargets: the backend calls, for the layers that are allocated
RECURSIVE DestroyCallsFrom(_, _)
DestroyCallsFrom(targets, i) ==
    IF i > 3 THEN <<>>
    ELSE (IF targets[i]
          THEN << Call("C3D_RenderTargetDelete", Layer(i), <<>>),
                  Call("C3D_TexDelete", Layer(i), <<>>) >>
          ELSE <<>>) \o DestroyCallsFrom(targets, i + 1)

\* fault variant: the loop stops one layer short
DestroyAllButLast(targets) ==
    [ targets |-> [i \in Layers |-> i = 3 /\ targets[i]],
      calls   |-> DestroyCallsFrom([targets EXCEPT ![3] = FALSE], 0) ]

s_destroySceneTargets(targets) ==
    [ targets |-> [i \in Layers |-> FALSE],
      calls   |-> DestroyCallsFrom(targets, 0) ]

\* uint16_t mem_w, mem_h of s_createSceneTargets
MemW(ScreenW) ==
    IF ScreenW \div 2 > 512 THEN 1024
    ELSE IF ScreenW \div 2 <= 256 THEN 256 ELSE 512

\* fault variant: the height rounded up through the three tiers, as the width is
MemHThreeTiers(ScreenH) ==
    IF ScreenH \div 2 > 512 THEN 1024
    ELSE IF ScreenH \div 2 <= 256 THEN 256 ELSE 512
MemH(ScreenH) == IF ScreenH \div 2 <= 256 THEN 256 ELSE 512

\* fault variant: one layer when a dimension is allocated at 1024, or swapped
SingleLayerAt1024(mem_w, mem_h, swap) == mem_w = 1024 \/ mem_h = 1024 \/ swap
\* the decision for s_single_layer_mode
SingleLayerMode(mem_w, mem_h, swap) ==
    IF mem_w >= 512 /\ mem_h = 512 THEN TRUE
    ELSE IF swap THEN TRUE
    ELSE FALSE

\* Tex3DS_SubTexture {width, height, left, top, right, bottom}; the fractions
\* right = s_tex_w / mem_w and bottom = 1 - s_tex_h / mem_h as <<numerator, denominator>>
SubTex(w, h, mem_w, mem_h) ==
    [ width |-> w, height |-> h, left |-> <<0, 1>>, top |-> <<1, 1>>,
      right |-> <<w, mem_w>>, bottom |-> <<mem_h - h, mem_h>> ]

\* the layers the creation loop reaches: all four, or layer 0 alone
CreatedLayers(single) == IF single THEN {0} ELSE Layers

RECURSIVE CreateCallsFrom(_, _, _, _)
CreateCallsFrom(single, mem_w, mem_h, i) ==
    IF i > 3 \/ i \notin CreatedLayers(single) THEN <<>>
    ELSE << Call("C3D_TexInitVRAM", Layer(i), <<mem_w, mem_h>>),
            Call("C3D_RenderTargetCreateFromTex", Layer(i), <<>>) >>
         \o CreateCallsFrom(single, mem_w, mem_h, i + 1)

\* fault variant: the logical size left as requested
ClampSkipped(x, mem) == x
\* s_createSceneTargets: "if(s_tex_w > mem_w) s_tex_w = mem_w", and the same for
\* the height
ClampTo(x, mem) == IF x > mem THEN mem ELSE x

\* s_createSceneTargets, from the old layer state and the globals it reads
s_createSceneTargets(targets, texs, subtexs, ScreenW, ScreenH, swap) ==
    LET mem_w  == MemW(ScreenW)
        mem_h  == MemH(ScreenH)
        w      == ClampTo(ScreenW \div 2, mem_w)
        h      == ClampTo(ScreenH \div 2, mem_h)
        single == SingleLayerMode(mem_w, mem_h, swap)
        made   == CreatedLayers(single)
    IN  [ s_tex_w      |-> w,
          s_tex_h      |-> h,
          s_tex_show_w |-> w,
          single       |-> single,
          targets      |-> [i \in Layers |-> i \in made],
          texs         |-> [i \in Layers |->
                              IF i \in made THEN [w |-> mem_w, h |-> mem_h]
                              ELSE IF targets[i] THEN [w |-> 0, h |-> 0]
                              ELSE texs[i]],
          subtexs      |-> [i \in Layers |->
                              IF i \in made THEN SubTex(w, h, mem_w, mem_h)
                              ELSE subtexs[i]],
          calls        |-> s_destroySceneTargets(targets).calls
                           \o CreateCallsFrom(single, mem_w, mem_h, 0) ]

\* fault variant: the per-layer loop without "if(s_single_layer_mode) break"
LoopWithoutBreak(single) == <<0, 1, 2, 3>>

\* the layers a per-layer loop "for(layer = 0; layer < 4; layer++) { ...;
\* if(s_single_layer_mode) break; }" visits
LoopLayers(single) == IF single THEN <<0>> ELSE <<0, 1, 2, 3>>

SeqMap(Op(_), s) == [k \in 1 .. Len(s) |-> Op(s[k])]

-----------------------------------------------------------------------------
(* The last operation: its name, the picture and integer arguments it was    *)
(* called with, and the part of the state before it that a property of the   *)
(* call needs.                                                               *)

\* a default-constructed StdPicture
NewPic ==
    [ inited |-> FALSE, lazyLoaded |-> FALSE, path |-> "",
      texture |-> FALSE, texture2 |-> FALSE, texture3 |-> FALSE,
      w |-> 0, h |-> 0, frame_w |-> 0, frame_h |-> 0 ]

Op(name, tex, args, extra) ==
    [ name     |-> name,
      tex      |-> tex,
      args     |-> args,
      in_frame |-> g_in_frame,            \* g_in_frame before the call
      frame    |-> s_current_frame,       \* s_current_frame before the call
      extra    |-> extra ]

B(b) == IF b THEN 1 ELSE 0

-----------------------------------------------------------------------------
(* Frame controller *)

\* fault variant: s_ensureInFrame without the guard "if(!g_in_frame)"
EnsureInFrameAlways(in_frame) == TRUE
\* s_ensureInFrame: the guard "if(!g_in_frame)"
EnsureInFrameActs(in_frame) == ~in_frame

\* s_ensureInFrame: the backend calls it makes
s_ensureInFrame ==
    IF EnsureInFrameActs(g_in_frame)
    THEN << Plain("minport_initFrame"), Plain("C3D_FrameBegin") >>
         \o SeqMap(LAMBDA i : Call("C2D_TargetClear", LayerPtr(i), <<0, 0, 0, 0>>),
                   LoopLayers(s_single_layer_mode))
         \o << Call("C2D_TargetClear", Bottom, <<0, 0, 0, 0>>) >>
    ELSE <<>>

\* history: the clears of composition layers among the calls cs
ClearsAfter(cs) ==
    [i \in Layers |->
        Min(2, layer_clears[i]
               + Cardinality({ k \in 1 .. Len(cs) :
                               cs[k].f = "C2D_TargetClear" /\ cs[k].t = Layer(i) }))]

DrawNames == { "C2D_DrawImage_Custom", "C2D_DrawRectSolid" }

\* history: a draw among the calls cs reaches a layer that was not cleared
\* since the last presentation
DirtyAfter(cs) ==
    [i \in Layers |->
        \/ layer_dirty[i]
        \/ \E k \in 1 .. Len(cs) :
              cs[k].f \in DrawNames /\ cs[k].t = Layer(i) /\ layer_clears[i] = 0]

\* minport_ApplyViewport: frameBuf.width, frameBuf.height and linked of a
\* target; garbage stands for what a read through a stale pointer returns
FrameBuf(t, texs, garbage) ==
    CASE t.k = "top"    -> [w |-> 240, h |-> 400, linked |-> TRUE]
      [] t.k = "right"  -> [w |-> 240, h |-> 400, linked |-> TRUE]
      [] t.k = "bottom" -> [w |-> 240, h |-> 320, linked |-> TRUE]
      [] t.k = "layer"  -> [w |-> texs[t.n].w, h |-> texs[t.n].h, linked |-> FALSE]
      [] OTHER          -> garbage

Garbage == { [w |-> 256, h |-> 256, linked |-> FALSE],
             [w |-> 0, h |-> 0, linked |-> TRUE] }

\* the extent of the hardware viewport along one axis of a framebuffer of the
\* given size: the logical extent, cut at the framebuffer's far edge
ViewportExtentUncut(size, pos, extent) == extent
ViewportExtent(size, pos, extent) == Min(size - pos, extent)

\* minport_ApplyViewport, called with the in-frame flag in_frame, the current
\* target cur and the viewport globals vp
minport_ApplyViewport(in_frame, cur, texs, vp, garbage) ==
    IF ~in_frame THEN <<>>
    ELSE << Plain("C2D_Flush"), Plain("C2D_ViewReset") >>
         \o (IF ~vp.ignore THEN << Plain("C2D_ViewTranslate") >> ELSE <<>>)
         \o (IF cur.k = "null" THEN <<>>
             ELSE LET fb == FrameBuf(cur, texs, garbage)
                      vx == IF fb.linked THEN vp.y ELSE vp.x
                      vy == IF fb.linked THEN vp.x ELSE vp.y
                      vw == IF fb.linked THEN vp.h ELSE vp.w
                      vh == IF fb.linked THEN vp.w ELSE vp.h
                      hw_x == Min(Max(vx, 0), fb.w - 1)
                      hw_y == Min(Max(vy, 0), fb.h - 1)
                      hw_w == ViewportExtent(fb.w, hw_x, vw)
                      hw_h == ViewportExtent(fb.h, hw_y, vh)
                  IN  IF fb.linked
                      THEN << Call("C3D_SetViewport", cur,
                                   <<fb.w - hw_x - hw_w, hw_y, hw_w, hw_h>>),
                              Call("C2D_SceneSize", cur, <<vp.h, vp.w, 1>>) >>
                      ELSE << Call("C3D_SetViewport", cur,
                                   <<hw_x, fb.h - hw_y - hw_h, hw_w, hw_h>>),
                              Call("C2D_SceneSize", cur, <<vp.w, vp.h, 0>>) >>)

\* the common shape of the four target selections: s_ensureInFrame, then the
\* selection of target t with the calls sel
SelectTarget(name, args, t, sel) ==
    \E cs \in { s_ensureInFrame \o sel } :
        /\ g_in_frame' = (g_in_frame \/ EnsureInFrameActs(g_in_frame))
        /\ frame_open' = (frame_open \/ "C3D_FrameBegin" \in Names(cs))
        /\ s_cur_target' = t
        /\ scene' = t
        /\ layer_clears' = ClearsAfter(cs)
        /\ layer_dirty' = DirtyAfter(cs)
        /\ UNCHANGED hostVars
        /\ op' = Op(name, 0, args, {})
        /\ calls' = cs
        /\ UNCHANGED <<s_current_frame, layerVars, texVars>>

\* the layer setTargetTexture selects
TextureLayer(single) == IF ~single THEN 2 ELSE 0

setTargetTexture ==
    LET t == LayerPtr(TextureLayer(s_single_layer_mode))
    IN  SelectTarget("setTargetTexture", <<>>, t,
                     << Call("C2D_SceneBegin", t, <<>>), Plain("C2D_ViewReset") >>)

setTargetScreen ==
    /\ UNCHANGED hostVars
    /\ op' = Op("setTargetScreen", 0, <<>>, {})
    /\ calls' = <<>>
    /\ UNCHANGED <<frameVars, layerVars, s_cur_target, texVars, backendVars, histVars>>

setTargetMainScreen ==
    SelectTarget("setTargetMainScreen", <<>>, Top,
                 << Call("C2D_TargetClear", Top, <<0, 0, 0, 1>>),
                    Call("C2D_SceneBegin", Top, <<>>), Plain("C2D_ViewReset") >>)

setTargetSubScreen ==
    SelectTarget("setTargetSubScreen", <<>>, Bottom,
                 << Call("C2D_TargetClear", Bottom, <<0, 0, 0, 1>>),
                    Call("C2D_SceneBegin", Bottom, <<>>), Plain("C2D_ViewReset") >>)

\* the layer setTargetLayer(layer) selects
SelectedLayer(single, layer) == IF ~single THEN layer ELSE 0

setTargetLayer(layer, vp) ==
    LET t == LayerPtr(SelectedLayer(s_single_layer_mode, layer))
    IN  SelectTarget("setTargetLayer", <<layer>>, t,
                     << Call("C2D_SceneBegin", t, <<>>) >>
                     \o minport_ApplyViewport(TRUE, t, s_layer_texs, vp,
                                              CHOOSE g \in Garbage : TRUE))

\* minport_ApplyViewport called on its own (by the shared viewport code)
ApplyViewport(vp) ==
    \E garbage \in (IF s_cur_target.k = "stale" THEN Garbage
                    ELSE { CHOOSE g \in Garbage : TRUE }) :
        /\ UNCHANGED hostVars
        /\ op' = Op("minport_ApplyViewport", 0, <<>>, {})
        /\ calls' = minport_ApplyViewport(g_in_frame, s_cur_target, s_layer_texs,
                                          vp, garbage)
        /\ UNCHANGED <<frameVars, layerVars, s_cur_target, texVars, backendVars,
                       histVars>>

\* fault variant: a rectangle fill that begins the frame itself
RenderBoxFilledInFrame(t, x1, y1, x2, y2) ==
    s_ensureInFrame \o << Call("C2D_DrawRectSolid", t, <<x1, y1, x2 - x1, y2 - y1>>) >>

\* minport_RenderBoxFilled: one C2D_DrawRectSolid on the current scene
minport_RenderBoxFilled(t, x1, y1, x2, y2) ==
    << Call("C2D_DrawRectSolid", t, <<x1, y1, x2 - x1, y2 - y1>>) >>

RenderBoxFilled(r) ==
    \E cs \in { minport_RenderBoxFilled(scene, r[1], r[2], r[3], r[4]) } :
        /\ UNCHANGED hostVars
        /\ op' = Op("minport_RenderBoxFilled", 0, r, {})
        /\ calls' = cs
        /\ layer_dirty' = DirtyAfter(cs)
        /\ UNCHANGED <<frameVars, layerVars, s_cur_target, texVars, backendVars,
                       layer_clears>>

\* fault variant: clearBuffer without the guard "if(!g_in_frame)"
ClearBufferUnguarded(in_frame) == TRUE
\* clearBuffer: the guard "if(!g_in_frame)"
ClearBufferActs(in_frame) == ~in_frame

\* clearBuffer: its backend calls; renderRect reaches minport_RenderBoxFilled
ClearBufferCalls ==
    << Plain("C3D_FrameBegin"), Plain("C2D_ViewReset"),
       Call("C2D_TargetClear", Top, <<0, 0, 0, 1>>), Call("C2D_SceneBegin", Top, <<>>) >>
    \o minport_RenderBoxFilled(Top, 0, 0, 400, 240)
    \o << Call("C2D_TargetClear", Right, <<0, 0, 0, 1>>),
          Call("C2D_SceneBegin", Right, <<>>) >>
    \o minport_RenderBoxFilled(Right, 0, 0, 400, 240)
    \o << Call("C2D_TargetClear", Bottom, <<0, 0, 0, 1>>),
          Call("C2D_SceneBegin", Bottom, <<>>) >>
    \o minport_RenderBoxFilled(Bottom, 0, 0, 320, 240)
    \o << Plain("C3D_FrameEnd") >>

clearBuffer ==
    /\ UNCHANGED hostVars
    /\ op' = Op("clearBuffer", 0, <<>>, {})
    /\ IF ClearBufferActs(g_in_frame)
       THEN /\ calls' = ClearBufferCalls
            /\ scene' = Bottom
       ELSE /\ calls' = <<>>
            /\ scene' = scene
    /\ frame_open' = (frame_open /\ ~ClearBufferActs(g_in_frame))
    /\ UNCHANGED <<frameVars, layerVars, s_cur_target, texVars, histVars>>

-----------------------------------------------------------------------------
(* Composition / repaint stage *)

\* fault variant: the base shift of the line that is commented out,
\* "constexpr int shift = MAX_3D_OFFSET / 2", with an offset of 20
shift_3d == 20 \div 2
\* constexpr int shift
shift == 0
\* constexpr double shift_i[] = {shift, shift * 0.4, 0, shift * -0.4}, in tenths
shift_i(layer) ==
    CASE layer = 0 -> shift * 10
      [] layer = 1 -> shift * 4
      [] layer = 2 -> 0
      [] layer = 3 -> -(shift * 4)

\* (int)(shift_i[layer] * s_depth_slider), the slider reading depth in hundredths
DepthOffset(layer, depth) == DivC(shift_i(layer) * depth, 1000)

\* the if / else-if chain of repaint: which presentation branch is taken
\* fault variant: the first branch taken without the test LevelEditor || MagicHand
BranchNoEditorTest(swapped, LevelEditor, MagicHand, editorActive, depth, single) ==
    IF swapped /\ editorActive THEN "a"
    ELSE IF swapped THEN "b"
    ELSE IF LevelEditor /\ ~editorActive THEN "c"
    ELSE IF depth <= 5 \/ single THEN "d"
    ELSE "e"

Branch(swapped, LevelEditor, MagicHand, editorActive, depth, single) ==
    IF swapped /\ (LevelEditor \/ MagicHand) /\ editorActive THEN "a"
    ELSE IF swapped THEN "b"
    ELSE IF LevelEditor /\ ~editorActive THEN "c"
    ELSE IF depth <= 5 \/ single THEN "d"
    ELSE "e"

\* C2D_DrawImage_Custom(s_layer_ims[layer], g_screen_phys_x + dx, ...,
\*                      sx, 0, s_tex_show_w, s_tex_h, X_FLIP_NONE, 1, 1, 1, 1) on target t
LayerDraw(t, layer, dx, sx) ==
    Call("C2D_DrawImage_Custom", t,
         <<0, layer, B(s_layer_targets[layer]), dx, sx, 0, s_tex_show_w, s_tex_h,
           0, 1, 1, 1, 1>>)

\* accessors of a layer draw
IsLayerDraw(c)  == c.f = "C2D_DrawImage_Custom" /\ c.a[1] = 0
DrawLayer(c)    == c.a[2]
DrawSrcX(c)     == c.a[5]

\* one composition pass onto target t
Compose(t, layers, dx, sign, depth) ==
    << Call("C2D_TargetClear", t, <<0, 0, 0, 1>>), Call("C2D_SceneBegin", t, <<>>) >>
    \o SeqMap(LAMBDA l : LayerDraw(t, l, dx, shift + sign * DepthOffset(l, depth)), layers)

\* the backend calls of repaint() in state InFrame
RepaintCalls(br, depth) ==
    << Plain("C2D_ViewReset") >>
    \o (CASE br = "a" -> Compose(Top, LoopLayers(s_single_layer_mode), 40, 0, depth)
          [] br = "b" -> Compose(Bottom, LoopLayers(s_single_layer_mode), 0, 0, depth)
          [] br = "c" -> Compose(Bottom, LoopLayers(s_single_layer_mode), -40, 0, depth)
          [] br = "d" -> Compose(Top, LoopLayers(s_single_layer_mode), 0, 0, depth)
          [] br = "e" -> Compose(Top, <<0, 1, 2, 3>>, 0, 1, depth)
                         \o Compose(Right, <<0, 1, 2, 3>>, 0, -1, depth))
    \o << Plain("C3D_FrameEnd") >>

\* the target the last C2D_SceneBegin among cs selected
LastScene(cs, old) ==
    LET ks == { k \in 1 .. Len(cs) : cs[k].f = "C2D_SceneBegin" }
    IN  IF ks = {} THEN old ELSE cs[CHOOSE k \in ks : \A j \in ks : j <= k].t

\* fault variant: repaint without the guard "if(!g_in_frame) return"
RepaintUnguarded(in_frame) == TRUE
\* repaint: the guard "if(!g_in_frame) return"
RepaintActs(in_frame) == in_frame

\* s_current_frame ++ (uint32_t: it wraps at 2^32, far beyond MaxFrames)
NextFrame(n) == n + 1

\* repaint() in state InFrame, with the globals LevelEditor, MagicHand and
\* editorScreen.active and the reading depth of the 3D slider
repaint(LevelEditor, MagicHand, editorActive, depth) ==
    \E cs \in { RepaintCalls(Branch(g_screen_swapped, LevelEditor, MagicHand,
                                    editorActive, depth, s_single_layer_mode),
                             depth) } :
    LET composited == { DrawLayer(cs[k]) : k \in { j \in 1 .. Len(cs) : IsLayerDraw(cs[j]) } }
    IN  /\ RepaintActs(g_in_frame)
        /\ s_current_frame < MaxFrames
        /\ s_cur_target' = Null
        /\ s_current_frame' = NextFrame(s_current_frame)
        /\ g_in_frame' = FALSE
        /\ frame_open' = FALSE
        /\ scene' = LastScene(cs, scene)
        /\ layer_clears' = [i \in Layers |-> 0]
        /\ layer_dirty' = [i \in Layers |-> FALSE]
        /\ UNCHANGED hostVars
        /\ op' = Op("repaint", 0,
                    <<B(LevelEditor), B(MagicHand), B(editorActive), depth>>,
                    { i \in composited : layer_clears[i] # 1 \/ layer_dirty[i] })
        /\ calls' = cs
        /\ UNCHANGED <<layerVars, texVars>>

\* repaint() in state Idle: it returns at once
repaintIdle ==
    /\ ~RepaintActs(g_in_frame)
    /\ UNCHANGED hostVars
    /\ op' = Op("repaint", 0, <<>>, {})
    /\ calls' = <<>>
    /\ UNCHANGED <<frameVars, layerVars, s_cur_target, texVars, backendVars, histVars>>

-----------------------------------------------------------------------------
(* Render-target manager *)

\* minport_ApplyPhysCoords: the test that decides the recreation
NeedsRecreate(ScreenW, ScreenH, swap) ==
    \/ ScreenW \div 2 # s_tex_w
    \/ ScreenH \div 2 # s_tex_h
    \/ g_screen_swapped # swap

\* a pointer to a layer target after the layers were destroyed and created
\* again: it dangles, and may or may not equal the address of the new target
Dangle(t, targets, reuse) ==
    IF t.k \in {"layer", "stale"}
    THEN (IF reuse /\ targets[t.n] THEN Layer(t.n) ELSE Stale(t.n))
    ELSE t

\* minport_ApplyPhysCoords with the globals ScreenW, ScreenH and the value
\* swap of should_swap_screen()
minport_ApplyPhysCoords(ScreenW, ScreenH, swap) ==
    \E reuse \in (IF {s_cur_target.k, scene.k} \cap {"layer", "stale"} # {}
                  /\ NeedsRecreate(ScreenW, ScreenH, swap)
                 THEN BOOLEAN ELSE {FALSE}) :
    \E c \in { s_createSceneTargets(s_layer_targets, s_layer_texs, s_layer_subtexs,
                                     ScreenW, ScreenH, swap) } :
    LET re == NeedsRecreate(ScreenW, ScreenH, swap)
        single == IF re THEN c.single ELSE s_single_layer_mode
    IN  /\ IF re
           THEN /\ s_tex_w' = c.s_tex_w
                /\ s_tex_h' = c.s_tex_h
                /\ s_tex_show_w' = c.s_tex_show_w
                /\ s_single_layer_mode' = c.single
                /\ s_layer_targets' = c.targets
                /\ s_layer_texs' = c.texs
                /\ s_layer_subtexs' = c.subtexs
                /\ s_cur_target' = Dangle(s_cur_target, c.targets, reuse)
                /\ scene' = Dangle(scene, c.targets, reuse)
                /\ layer_clears' = [i \in Layers |-> 0]
                /\ layer_dirty' = [i \in Layers |-> FALSE]
           ELSE UNCHANGED <<s_tex_w, s_tex_h, s_tex_show_w, s_single_layer_mode,
                            s_layer_targets, s_layer_texs, s_layer_subtexs,
                            s_cur_target, scene, histVars>>
        /\ g_screen_swapped' = swap
        /\ UNCHANGED hostVars
        /\ op' = Op("minport_ApplyPhysCoords", 0, <<ScreenW, ScreenH, B(swap)>>,
                    IF re THEN {1} ELSE {})
        /\ calls' = (IF re THEN c.calls ELSE <<>>)
                    \o SeqMap(LAMBDA l : Call("C3D_TexSetFilter", Layer(l), <<>>),
                              LoopLayers(single))
        /\ UNCHANGED <<frameVars, texVars, frame_open>>

-----------------------------------------------------------------------------
(* Texture resources (StdPicture) and the files they are loaded from *)

\* the bytes of the file <path>.size, or <<>> with HasSidecar false
HasSidecar(path) == path \in { "small", "tall", "huge", "short" }
Sidecar(path) ==
    CASE path = "small" -> << "0", "0", "6", "4", "\n", "0", "0", "3", "2", "\n" >>
      [] path = "tall"  -> << "0", "0", "6", "4", "\n", "2", "5", "0", "0", "\n" >>
      [] path = "huge"  -> << "0", "0", "6", "4", "\n", "5", "0", "0", "0", "\n" >>
      [] path = "short" -> << "6", "4", "\n", "3", "2", "\n" >>
      [] OTHER          -> << >>

\* width and height of the sub-texture of image 0 of the sprite sheet at path
\* (the converted images are stored at half the logical size)
SubW(path) == 32
SubH(path) == IF path \in { "tall", "huge" } THEN 1024 ELSE 16

\* readings of linearSpaceFree()
FreeLevels == { 3999999, 4000000, 4194304 }
\* what an uninitialised byte of the sidecar buffer may hold
GarbageChars == { "7", "x", "-" }
\* the uninitialised buffer: the bytes at even offsets hold g[1], the others g[2]
GarbageBytes(has, bytes) ==
    IF has /\ Len(bytes) < 10 THEN GarbageChars \X GarbageChars ELSE { << "x", "x" >> }

ToInt16(x) == ((x + 32768) % 65536) - 32768

\* atoi on the NUL-terminated string that starts at position k of buffer s
IsSpace(c) == c \in { " ", "\n", "\t" }
IsDigit(c) == c \in { "0", "1", "2", "3", "4", "5", "6", "7", "8", "9" }
DigitVal(c) ==
    CASE c = "0" -> 0 [] c = "1" -> 1 [] c = "2" -> 2 [] c = "3" -> 3 [] c = "4" -> 4
      [] c = "5" -> 5 [] c = "6" -> 6 [] c = "7" -> 7 [] c = "8" -> 8 [] c = "9" -> 9

RECURSIVE AtoiDigits(_, _, _)
AtoiDigits(s, k, acc) ==
    IF k > Len(s) \/ ~IsDigit(s[k]) THEN acc
    ELSE AtoiDigits(s, k + 1, acc * 10 + DigitVal(s[k]))

RECURSIVE atoi(_, _)
atoi(s, k) ==
    IF k > Len(s) THEN 0
    ELSE IF IsSpace(s[k]) THEN atoi(s, k + 1)
    ELSE IF s[k] = "-" THEN -AtoiDigits(s, k + 1, 0)
    ELSE IF s[k] = "+" THEN AtoiDigits(s, k + 1, 0)
    ELSE AtoiDigits(s, k, 0)

\* char contents[10] after fread(contents, 1, 10, fs), contents[4] = '\0' and
\* contents[9] = '\0'; bytes the file does not fill keep the garbage g
SizeBuffer(bytes, g) ==
    [k \in 1 .. 10 |->
        IF k = 5 \/ k = 10 THEN "NUL"
        ELSE IF k <= Len(bytes) THEN bytes[k] ELSE g[(k % 2) + 1]]

-----------------------------------------------------------------------------
(* The texture loader.  Its operations act on a context: the pictures, the   *)
(* counter s_num_textures_loaded and the backend calls made so far; an       *)
(* operation with several outcomes yields the set of contexts it may end in. *)

Ctx(p, n, cs) == [pics |-> p, n |-> n, calls |-> cs]
Emit(c, call) == [c EXCEPT !.calls = Append(@, call)]

Upload(i, band)  == Call("C2D_SpriteSheetLoad", Null, <<i, band>>)
Release(i, band) == Call("C2D_SpriteSheetFree", Null, <<i, band>>)
FreeRead(v)      == Call("linearSpaceFree", Null, <<v>>)
\* s_loadTexture, s_loadTexture2, s_loadTexture3: the image taken from a sheet
\* that was loaded
GetImage(i, band) == Call("C2D_SpriteSheetGetImage", Null, <<i, band>>)

\* fault variant: deleteTexture on a picture that is not inited goes on
DeleteUnguarded(tx) == TRUE
\* deleteTexture: the guard "if(!tx.inited) return"
DeleteActs(tx) == tx.inited

\* fault variant: only the primary sprite sheet is set to null
FreePrimaryOnly(tx) == [tx EXCEPT !.texture = FALSE]
\* deleteTexture: the three handles after "if(tx.d.textureN) { ...Free; = nullptr }"
FreeHandles(tx) == [tx EXCEPT !.texture = FALSE, !.texture2 = FALSE, !.texture3 = FALSE]

\* fault variant: the fields of the picture reset also on a lazy unload
ResetAlways(tx, lazyUnload) ==
    [tx EXCEPT !.inited = FALSE, !.lazyLoaded = FALSE, !.w = 0, !.h = 0,
               !.frame_w = 0, !.frame_h = 0]
\* deleteTexture: "if(!lazyUnload) { tx.inited = false; ...; tx.frame_h = 0; }"
ResetUnlessLazy(tx, lazyUnload) ==
    IF lazyUnload THEN tx
    ELSE [tx EXCEPT !.inited = FALSE, !.lazyLoaded = FALSE, !.w = 0, !.h = 0,
                    !.frame_w = 0, !.frame_h = 0]

\* fault variant: the counter decremented whether or not a sheet was bound
CountAlwaysDropped(tx, n) == n - 1
\* deleteTexture: "if(tx.d.texture) { s_num_textures_loaded --; ... }"
CountAfterDelete(tx, n) == IF tx.texture THEN n - 1 ELSE n

\* deleteTexture(tx, lazyUnload)
deleteTexture(c, i, lazyUnload) ==
    LET tx == c.pics[i]
        cs == << Call("minport_unlinkTexture", Null, <<i>>) >>
              \o (IF tx.texture  THEN << Release(i, 0) >> ELSE <<>>)
              \o (IF tx.texture2 THEN << Release(i, 1) >> ELSE <<>>)
              \o (IF tx.texture3 THEN << Release(i, 2) >> ELSE <<>>)
        freed == FreeHandles(tx)
    IN  IF ~DeleteActs(tx) THEN c
        ELSE [ pics  |-> [c.pics EXCEPT ![i] = ResetUnlessLazy(freed, lazyUnload)],
               n     |-> CountAfterDelete(tx, c.n),
               calls |-> c.calls \o cs ]

\* lazyUnLoad: the guard
LazyUnLoadActs(tx) == tx.inited /\ tx.lazyLoaded /\ tx.texture

lazyUnLoad(c, i) ==
    IF LazyUnLoadActs(c.pics[i]) THEN deleteTexture(c, i, TRUE) ELSE c

\* minport_freeTextureMemory, the eviction pass of the shared renderer code:
\* lazyUnLoad on the lazy resources that are not needed; which ones is the
\* caller's judgment, never the picture being loaded
RECURSIVE UnloadAll(_, _)
UnloadAll(c, E) ==
    IF E = {} THEN c
    ELSE LET j == CHOOSE x \in E : \A y \in E : x <= y
         IN  UnloadAll(lazyUnLoad(c, j), E \ {j})

minport_freeTextureMemory(c, busy) ==
    { UnloadAll(Emit(c, Plain("minport_freeTextureMemory")), E) :
        E \in SUBSET { j \in DOMAIN c.pics : j # busy /\ LazyUnLoadActs(c.pics[j]) } }

\* fault variant: the eviction before the retry tested against the threshold
\* of lazyLoad's last test
TryHardEvictsBelow4MiB(free) == free < 4194304
\* s_tryHardToLoadC2D_SpriteSheet: the test for the eviction before the retry
TryHardEvicts(free) == free < 4000000

\* s_tryHardToLoadC2D_SpriteSheet for band `band` of picture i: the set of
\* [c, ok], ok telling whether a sprite sheet was returned
s_tryHardToLoadC2D_SpriteSheet(c, i, band) ==
    LET c1 == Emit(c, Upload(i, band))
    IN  { [c |-> c1, ok |-> TRUE] }
        \cup UNION { LET c2 == Emit(c1, FreeRead(free))
                     IN  UNION { { [c |-> Emit(c3, Upload(i, band)), ok |-> ok] :
                                     ok \in BOOLEAN } :
                                 c3 \in (IF TryHardEvicts(free)
                                         THEN minport_freeTextureMemory(c2, i)
                                         ELSE { c2 }) } :
                     free \in FreeLevels }

\* s_loadTexture
s_loadTexture(tx) ==
    IF tx.w = 0
    THEN [tx EXCEPT !.texture = TRUE, !.w = SubW(tx.path) * 2, !.h = SubH(tx.path) * 2]
    ELSE [tx EXCEPT !.texture = TRUE]

\* fault variant: lazyLoad without the test of target.d.texture
LazyLoadIgnoresTexture(tx) == tx.inited /\ tx.lazyLoaded
\* lazyLoad: the guard "if(!target.inited || !target.l.lazyLoaded || target.d.texture) return"
LazyLoadActs(tx) == tx.inited /\ tx.lazyLoaded /\ ~tx.texture

\* fault variant: the second band wanted above the height of one band of the
\* stored (half size) image
WantsBand2Above1024(h) == h > 1024
\* lazyLoad: the tests for the overflow bands
WantsBand2(h) == h > 2048
\* fault variant: the third band wanted at the threshold itself
WantsBand3From4096(h) == h >= 4096
WantsBand3(h) == h > 4096

\* fault variant: lazyLoad's last test against the threshold of the retry
LowMemoryBelow4000000(free) == free < 4000000
\* lazyLoad: the test for the eviction after a successful load
LowMemory(free) == free < 4194304

\* fault variant: an overflow sheet that cannot be loaded fails the picture
OverflowFailedFatal(c, i) == [c EXCEPT !.pics[i].inited = FALSE]
\* lazyLoad: an overflow sheet that cannot be loaded is only logged
OverflowFailed(c, i) == c

\* lazyLoad, after the primary sprite sheet was loaded into context c
LazyLoadBands(c, i) ==
    LET cA == Emit([c EXCEPT !.pics[i] = s_loadTexture(@)], GetImage(i, 0))
        h  == cA.pics[i].h
        B2 == IF WantsBand2(h)
              THEN { IF r.ok THEN Emit([r.c EXCEPT !.pics[i].texture2 = TRUE], GetImage(i, 1))
                     ELSE OverflowFailed(r.c, i) :
                       r \in s_tryHardToLoadC2D_SpriteSheet(cA, i, 1) }
              ELSE { cA }
        B3 == IF WantsBand3(h)
              THEN UNION { { Emit([Emit(cB, Upload(i, 2)) EXCEPT !.pics[i].texture3 = TRUE],
                                  GetImage(i, 2)),
                             OverflowFailed(Emit(cB, Upload(i, 2)), i) } : cB \in B2 }
              ELSE B2
    IN  UNION { UNION { LET cD == Emit([cC EXCEPT !.n = @ + 1], FreeRead(free))
                        IN  IF LowMemory(free) THEN minport_freeTextureMemory(cD, i)
                            ELSE { cD } :
                        free \in FreeLevels } :
                cC \in B3 }

\* lazyLoad(target): the contexts it may end in
lazyLoad(c, i) ==
    IF ~LazyLoadActs(c.pics[i]) THEN { c }
    ELSE UNION { IF r.ok THEN LazyLoadBands(r.c, i)
                 ELSE { [r.c EXCEPT !.pics[i].inited = FALSE] } :
                 r \in s_tryHardToLoadC2D_SpriteSheet(c, i, 0) }

\* fault variant: LoadPicture that leaves the counter alone
LoadedCountKept(n) == n
\* LoadPicture: "s_num_textures_loaded ++" after a sheet was loaded
LoadedCount(n) == n + 1

\* LoadPicture(path): the picture it returns, stored as picture i
LoadPicture(c, i, path, GameIsActive) ==
    IF ~GameIsActive THEN { [c EXCEPT !.pics[i] = NewPic] }
    ELSE IF path = "" THEN { [c EXCEPT !.pics[i] = NewPic] }
    ELSE LET target == [NewPic EXCEPT !.path = path, !.inited = TRUE]
             c1 == Emit(c, Upload(i, 0))
         IN  { Emit([c1 EXCEPT !.pics[i] = s_loadTexture(target),
                               !.n = LoadedCount(@)], GetImage(i, 0)),
               [c1 EXCEPT !.pics[i] = [target EXCEPT !.inited = FALSE]] }

\* lazyLoadPictureFromList: one entry of the load list, as fscanf finds it:
\* name is "none" (no path could be read), "long" (255 characters were read)
\* or "ok"; nread is the number of dimensions read
lazyLoadPictureFromList(c, i, path, e, GameIsActive) ==
    IF ~GameIsActive \/ e.name # "ok" THEN [c EXCEPT !.pics[i] = NewPic]
    ELSE LET target == [NewPic EXCEPT !.inited = TRUE, !.path = path, !.lazyLoaded = TRUE]
         IN  IF e.nread # 2 \/ e.w < 0 \/ e.w > 8192 \/ e.h < 0 \/ e.h > 8192
             THEN [c EXCEPT !.pics[i] = [target EXCEPT !.inited = FALSE]]
             ELSE [c EXCEPT !.pics[i] = [target EXCEPT !.w = e.w, !.h = e.h]]

\* lazyLoadPicture: where the two numbers start in the size buffer
\* (&contents[0] and &contents[5], counted from 1 here)
WidthField == 1
\* fault variant: the height read from the byte the first terminator is in
HeightFieldAtTerminator == 6 - 1
HeightField == 6

\* lazyLoadPicture(path) when fopen of <path>.size succeeds (has) and the file
\* holds bytes: the picture it returns, stored as picture i; g is the garbage
\* in the size buffer
lazyLoadPictureFile(c, i, path, has, bytes, GameIsActive, g) ==
    IF ~GameIsActive THEN { [c EXCEPT !.pics[i] = NewPic] }
    ELSE IF path = "" THEN { [c EXCEPT !.pics[i] = NewPic] }
    ELSE LET target == [NewPic EXCEPT !.path = path, !.inited = TRUE, !.lazyLoaded = TRUE]
         IN  IF has
             THEN LET contents == SizeBuffer(bytes, g)
                  IN  { [c EXCEPT !.pics[i] =
                            [target EXCEPT !.w = atoi(contents, WidthField),
                                           !.h = atoi(contents, HeightField)]] }
             ELSE { lazyUnLoad(c1, i) : c1 \in lazyLoad([c EXCEPT !.pics[i] = target], i) }

\* lazyLoadPicture(path) on the files of the model
lazyLoadPicture(c, i, path, GameIsActive, g) ==
    lazyLoadPictureFile(c, i, path, HasSidecar(path), Sidecar(path), GameIsActive, g)

-----------------------------------------------------------------------------
(* Draw primitive dispatcher: the sprite blit *)

\* bitwise exclusive or of two naturals
RECURSIVE Xor(_, _)
Xor(a, b) ==
    IF a = 0 THEN b
    ELSE IF b = 0 THEN a
    ELSE 2 * Xor(a \div 2, b \div 2) + (IF (a % 2) = (b % 2) THEN 0 ELSE 1)

\* the arguments of a blit; center.has tells whether a pivot was given
BlitArgs(xDst, yDst, wDst, hDst, xSrc, ySrc, wSrc, hSrc, rotateAngle, center, flip) ==
    [ xDst |-> xDst, yDst |-> yDst, wDst |-> wDst, hDst |-> hDst,
      xSrc |-> xSrc, ySrc |-> ySrc, wSrc |-> wSrc, hSrc |-> hSrc,
      rotateAngle |-> rotateAngle, center |-> center, flip |-> flip ]
NoCenter == [has |-> FALSE, x |-> 0, y |-> 0]
Center(x, y) == [has |-> TRUE, x |-> x, y |-> y]

\* "while(ySrc >= tx.h / 2 && mode < 3) { ySrc -= tx.h / 2; mode += 1; }":
\* the final <<ySrc, mode>>
RECURSIVE FlipWrapUpToFour(_, _, _)
\* fault variant: the loop bounded by "mode < 4"
FlipWrapUpToFour(ySrc, half, mode) ==
    IF ySrc >= half /\ mode < 4
    THEN FlipWrapUpToFour(ToInt16(ySrc - half), half, mode + 1)
    ELSE <<ySrc, mode>>

RECURSIVE FlipWrap(_, _, _)
FlipWrap(ySrc, half, mode) ==
    IF ySrc >= half /\ mode < 3
    THEN FlipWrap(ToInt16(ySrc - half), half, mode + 1)
    ELSE <<ySrc, mode>>

\* fault variant: the flip flags toggled once per wrap
FlipTogglePerWrap(flip, mode) == Xor(flip, mode % 2)
\* "flip ^= mode"
FlipAfterWrap(flip, mode) == Xor(flip, mode)

\* fault variant: the view restored only when something was drawn
RestoreViewAfterDraw(rot, drawn) ==
    IF rot /\ drawn # << >> THEN << Plain("C2D_ViewRestore") >> ELSE << >>
\* "if(rotateAngle) C2D_ViewRestore(&prev_view)" after the draws `drawn`
RestoreView(rot, drawn) == IF rot THEN << Plain("C2D_ViewRestore") >> ELSE << >>

\* fault variant: the destination split in the middle
SplitInHalves(rows, hDst, hSrc) == DivC(hDst, 2)
\* "(1024 - ySrc) * hDst / hSrc": the destination rows of the upper part
SplitShare(rows, hDst, hSrc) == DivC(rows * hDst, hSrc)

\* fault variant: the upper band chosen without the tests of ySrc
TopBandUntested(over2, ySrc, tx) ==
    IF over2 THEN (IF tx.texture2 THEN 2 ELSE 0) ELSE 1
\* to_draw_2, the band the upper part is drawn from (0: nullptr): "if(ySrc <
\* 2048 && tx.d.texture2) to_draw_2 = &tx.d.image2" past row 2048, and
\* "if(ySrc < 1024) to_draw_2 = &tx.d.image" otherwise
TopBand(over2, ySrc, tx) ==
    IF over2 THEN (IF ySrc < 2048 /\ tx.texture2 THEN 2 ELSE 0)
    ELSE (IF ySrc < 1024 THEN 1 ELSE 0)

\* C2D_DrawImage_Custom of band `band` (1: image, 2: image2, 3: image3) of picture i
PicDraw(t, i, band, xDst, yDst, wDst, hDst, xSrc, ySrc, wSrc, hSrc, flip) ==
    Call("C2D_DrawImage_Custom", t,
         <<1, i, band, xDst, yDst, wDst, hDst, xSrc, ySrc, wSrc, hSrc, flip>>)

\* accessors of a picture draw
IsPicDraw(c) == c.f = "C2D_DrawImage_Custom" /\ c.a[1] = 1
PicBand(c)   == c.a[3]
PicDstY(c)   == c.a[5]
PicDstH(c)   == c.a[7]
PicSrcY(c)   == c.a[9]
PicSrcH(c)   == c.a[11]
PicFlip(c)   == c.a[12]

\* minport_RenderTexturePrivate from "automatic flipping" on: the backend
\* calls for a picture tx whose primary texture is bound, drawn on target t
BlitCalls(t, i, tx, a) ==
    LET wrapped == FlipWrap(a.ySrc, DivC(tx.h, 2), 0)
        ySrc1 == wrapped[1]
        flip  == FlipAfterWrap(a.flip, wrapped[2])
        rot   == a.rotateAngle # 0
        cx    == IF a.center.has THEN ToInt16(DivC(a.center.x + 1, 2))
                 ELSE ToInt16(DivC(a.wDst, 2))
        cy    == IF a.center.has THEN ToInt16(DivC(a.center.y + 1, 2))
                 ELSE ToInt16(DivC(a.hDst, 2))
        xDst  == IF rot THEN ToInt16(-cx) ELSE a.xDst
        yDst1 == IF rot THEN ToInt16(-cy) ELSE a.yDst
        over1 == ySrc1 + a.hSrc > 1024
        over2 == ySrc1 + a.hSrc > 2048
        to_draw == IF ~over1 THEN 1
                   ELSE IF over2 THEN (IF tx.texture3 THEN 3 ELSE 0)
                   ELSE (IF tx.texture2 THEN 2 ELSE 0)
        to_draw_2 == IF ~over1 THEN 0 ELSE TopBand(over2, ySrc1, tx)
        ySrc2 == IF over1 /\ over2 THEN ToInt16(ySrc1 - 1024) ELSE ySrc1
        top   == over1 /\ to_draw_2 # 0
        part  == IF top /\ a.hSrc # 0 THEN SplitShare(1024 - ySrc2, a.hDst, a.hSrc) ELSE 0
        yDst3 == IF top THEN ToInt16(yDst1 + part) ELSE yDst1
        hDst3 == IF top THEN ToInt16(a.hDst - part) ELSE a.hDst
        hSrc3 == IF top THEN ToInt16(a.hSrc - (1024 - ySrc2)) ELSE a.hSrc
        ySrc3 == IF top THEN 0
                 ELSE IF over1 THEN ToInt16(ySrc2 - 1024)
                 ELSE ySrc2
        drawn == IF top /\ a.hSrc = 0 THEN << Plain("DivisionByZero") >>
                 ELSE (IF top
                       THEN << PicDraw(t, i, to_draw_2, xDst, yDst1, a.wDst, part,
                                       a.xSrc, ySrc2, a.wSrc, 1024 - ySrc2, flip) >>
                       ELSE <<>>)
                      \o (IF to_draw # 0
                          THEN << PicDraw(t, i, to_draw, xDst, yDst3, a.wDst, hDst3,
                                          a.xSrc, ySrc3, a.wSrc, hSrc3, flip) >>
                          ELSE <<>>)
    IN  (IF rot
         THEN << Plain("C2D_ViewSave"),
                 Call("C2D_ViewTranslate", Null, <<a.xDst + cx, a.yDst + cy>>),
                 Call("C2D_ViewRotateDegrees", Null, <<a.rotateAngle>>) >>
         ELSE <<>>)
        \o drawn
        \o RestoreView(rot, drawn)

\* minport_RenderTexturePrivate: the guard "if(!tx.inited) return"
BlitActs(tx) == tx.inited

\* minport_RenderTexturePrivate(..., tx, ...): the contexts it may end in
minport_RenderTexturePrivate(c, t, i, a) ==
    IF ~BlitActs(c.pics[i]) THEN { c }
    ELSE { IF ~c1.pics[i].texture THEN c1
           ELSE [c1 EXCEPT !.calls = @ \o BlitCalls(t, i, c1.pics[i], a)] :
           c1 \in (IF ~c.pics[i].texture /\ c.pics[i].lazyLoaded
                   THEN lazyLoad(c, i) ELSE { c }) }

-----------------------------------------------------------------------------
(* The texture operations as actions *)

Here == Ctx(pics, s_num_textures_loaded, <<>>)

\* a picture object can be constructed in slot i when the object held there
\* owns no backend handle
Vacant(i) == ~pics[i].texture /\ ~pics[i].texture2 /\ ~pics[i].texture3

TexStep(name, i, args, c) ==
    /\ pics' = c.pics
    /\ s_num_textures_loaded' = c.n
    /\ calls' = c.calls
    /\ UNCHANGED hostVars
    /\ op' = Op(name, i, args, {})
    /\ layer_dirty' = DirtyAfter(c.calls)
    /\ UNCHANGED <<frameVars, layerVars, s_cur_target, backendVars, layer_clears>>

LoadPictureAct(i, path, GameIsActive) ==
    /\ Vacant(i)
    /\ \E c \in LoadPicture(Here, i, path, GameIsActive) :
          TexStep("LoadPicture", i, <<B(GameIsActive)>>, c)

LazyLoadPictureAct(i, path, GameIsActive) ==
    /\ Vacant(i)
    /\ \E g \in GarbageBytes(HasSidecar(path), Sidecar(path)) :
       \E c \in lazyLoadPicture(Here, i, path, GameIsActive, g) :
          TexStep("lazyLoadPicture", i, <<B(GameIsActive)>>, c)

LazyLoadPictureFromListAct(i, path, e, GameIsActive) ==
    /\ Vacant(i)
    /\ TexStep("lazyLoadPictureFromList", i, <<B(GameIsActive)>>,
               lazyLoadPictureFromList(Here, i, path, e, GameIsActive))

\* lazyLoadPicture with the size file as an input: has tells whether it can
\* be opened, bytes is what it holds
LazyLoadPictureFileAct(i, path, has, bytes, GameIsActive) ==
    /\ Vacant(i)
    /\ \E g \in GarbageBytes(has, bytes) :
       \E c \in lazyLoadPictureFile(Here, i, path, has, bytes, GameIsActive, g) :
          TexStep("lazyLoadPicture", i, <<B(GameIsActive), B(has), bytes>>, c)

\* lazyLoad and lazyPreLoad, which only calls lazyLoad
LazyLoadAct(i) ==
    \E c \in lazyLoad(Here, i) : TexStep("lazyLoad", i, <<>>, c)

LazyUnLoadAct(i) == TexStep("lazyUnLoad", i, <<>>, lazyUnLoad(Here, i))

DeleteTextureAct(i) == TexStep("deleteTexture", i, <<>>, deleteTexture(Here, i, FALSE))

\* the owner of an inited picture writes its frame dimensions; the renderer
\* only resets them, in deleteTexture
SetFrameSize(i, fw, fh) ==
    /\ pics[i].inited
    /\ TexStep("SetFrameSize", i, <<fw, fh>>,
               [Here EXCEPT !.pics[i].frame_w = fw, !.pics[i].frame_h = fh])

RenderTexture(i, a) ==
    \E c \in minport_RenderTexturePrivate(Here, scene, i, a) :
        TexStep("minport_RenderTexturePrivate", i,
                <<a.xDst, a.yDst, a.wDst, a.hDst, a.xSrc, a.ySrc, a.wSrc, a.hSrc,
                  a.rotateAngle, a.flip>>, c)

-----------------------------------------------------------------------------
(* Shutdown *)

\* the global list of textures, g_render_chain_tail being its last element:
\* the pictures that hold a sprite sheet, in the order of their last use
RenderChains(p) ==
    LET live == { i \in DOMAIN p : p[i].texture }
    IN  { f \in [1 .. Cardinality(live) -> live] :
            \A a, b \in 1 .. Cardinality(live) : a # b => f[a] # f[b] }

\* p->l.next_texture as the loop of s_clearAllTextures reads it after
\* deleteTexture(*p) at position k of the chain: minport_unlinkTexture has
\* taken the picture out of the list and cleared its links, and the tail has
\* no next element in any case; 0 stands for the null pointer
NextTexture(chain, k) == 0

\* s_clearAllTextures: the loop from g_render_chain_tail along next_texture
RECURSIVE ClearFrom(_, _, _)
ClearFrom(c, chain, k) ==
    IF k = 0 THEN c
    ELSE ClearFrom(deleteTexture(c, chain[k], FALSE), chain, NextTexture(chain, k))

s_clearAllTextures(c, chain) == ClearFrom(c, chain, Len(chain))

\* quit(); nothing is called after it
quit ==
    /\ op.name # "quit"
    /\ \E chain \in RenderChains(pics) :
       \E c \in { s_clearAllTextures(Here, chain) } :
       \E d \in { s_destroySceneTargets(s_layer_targets) } :
          /\ pics' = c.pics
          /\ s_num_textures_loaded' = c.n
          /\ s_layer_targets' = d.targets
          /\ s_layer_texs' = [i \in Layers |->
                                IF s_layer_targets[i] THEN [w |-> 0, h |-> 0]
                                ELSE s_layer_texs[i]]
          /\ s_cur_target' = Dangle(s_cur_target, d.targets, FALSE)
          /\ scene' = Dangle(scene, d.targets, FALSE)
          /\ calls' = c.calls \o d.calls
                       \o << Plain("C2D_Fini"), Plain("C3D_Fini"), Plain("gfxExit"),
                             Plain("aptExit") >>
          /\ UNCHANGED hostVars
          /\ op' = Op("quit", 0, chain, {})
          /\ UNCHANGED << frameVars, g_screen_swapped, s_single_layer_mode, s_tex_w,
                          s_tex_h, s_tex_show_w, s_layer_subtexs, frame_open, histVars >>

-----------------------------------------------------------------------------
(* Coordinate mapping *)

\* the globals the two mappings read: editor stands for
\* (LevelEditor || MagicHand) && editorScreen.active
MapEnv(editor, swapped, px, py, pw, ph, SW, SH) ==
    [ editor |-> editor, g_screen_swapped |-> swapped,
      g_screen_phys_x |-> px, g_screen_phys_y |-> py,
      g_screen_phys_w |-> pw, g_screen_phys_h |-> ph, ScreenW |-> SW, ScreenH |-> SH ]

\* mapToScreen(x, y, &dx, &dy): the pair <<dx, dy>>
mapToScreen(x, y, e) ==
    IF e.editor THEN << x * 2, y * 2 >>
    ELSE LET x1 == IF ~e.g_screen_swapped THEN x + 40 ELSE x
         IN  << DivC((x1 - e.g_screen_phys_x) * e.ScreenW, e.g_screen_phys_w),
                DivC((y - e.g_screen_phys_y) * e.ScreenH, e.g_screen_phys_h) >>

\* fault variant: the horizontal offset of the unswapped screen is not taken off
mapFromScreenKeepsOffset(scr_x, scr_y, e) ==
    IF e.editor THEN << DivC(scr_x, 2), DivC(scr_y, 2) >>
    ELSE << DivC(scr_x * e.g_screen_phys_w, e.ScreenW) + e.g_screen_phys_x,
            DivC(scr_y * e.g_screen_phys_h, e.ScreenH) + e.g_screen_phys_y >>

\* mapFromScreen(scr_x, scr_y, &window_x, &window_y): the pair <<window_x, window_y>>
mapFromScreen(scr_x, scr_y, e) ==
    IF e.editor THEN << DivC(scr_x, 2), DivC(scr_y, 2) >>
    ELSE LET wx == DivC(scr_x * e.g_screen_phys_w, e.ScreenW) + e.g_screen_phys_x
             wy == DivC(scr_y * e.g_screen_phys_h, e.ScreenH) + e.g_screen_phys_y
         IN  << IF ~e.g_screen_swapped THEN wx - 40 ELSE wx, wy >>

\* the two mappings as operations: they change no state of the renderer
MapStep(name, x, y, e, out) ==
    /\ op' = [ name |-> name, tex |-> 0, args |-> <<x, y>>, in_frame |-> g_in_frame,
               frame |-> s_current_frame, extra |-> e ]
    /\ ret' = out
    /\ calls' = <<>>
    /\ UNCHANGED << frameVars, layerVars, s_cur_target, texVars, backendVars, histVars,
                    touch >>

MapToScreenAct(x, y, e) == MapStep("mapToScreen", x, y, e, mapToScreen(x, y, e))

MapFromScreenAct(scr_x, scr_y, e) ==
    MapStep("mapFromScreen", scr_x, scr_y, e, mapFromScreen(scr_x, scr_y, e))

-----------------------------------------------------------------------------
(* The touch-screen controller *)

\* enum commands, in the order of the enum; the keys of Controls_t come first
ControlKeys == << "start", "left", "right", "up", "down", "run", "jump", "altrun",
                 "altjump", "drop" >>
Commands == ControlKeys \o << "holdRun", "toggleKeysView" >>
key_END == Len(Commands)
key_toggleKeysView == key_END
key_holdRun == key_END - 1

\* ExtraKeys, default-constructed
NewExtraKeys ==
    [ keyToggleView |-> FALSE, keyToggleViewOnce |-> FALSE,
      keyHoldRun |-> FALSE, keyHoldRunOnce |-> FALSE,
      keyRunOnce |-> FALSE, keyAltRunOnce |-> FALSE ]

\* FingerState::FingerState(); the member alive has no initialiser there and
\* is written before it is read
NewFingerState ==
    [ alive |-> FALSE, heldKey |-> [k \in 1 .. key_END |-> FALSE],
      heldKeyPrev |-> [k \in 1 .. key_END |-> FALSE] ]

\* a TouchScreenController before the first update: m_fingers is the map of
\* the finger states by finger id, m_current_keys the set of the keys of
\* Controls_t that are true
NewController ==
    [ m_fingers |-> << >>, m_current_keys |-> {},
      m_current_extra_keys |-> NewExtraKeys,
      m_touchHidden |-> FALSE, m_runHeld |-> FALSE ]

\* touchKeysMap: the hit boxes <<x1, y1, x2, y2>> of the keys on the canvas of
\* touchCanvasWidth x touchCanvasHeight, in the order of the enum
touchCanvasWidth  == 1024
touchCanvasHeight == 600
touchKeysMap ==
    << <<331, 537, 482, 587>>,
       <<1, 328, 91, 498>>, <<171, 328, 261, 498>>,
       <<1, 328, 261, 418>>, <<1, 498, 261, 588>>,
       <<807, 431, 914, 522>>, <<898, 396, 1005, 487>>,
       <<807, 325, 914, 416>>, <<898, 290, 1005, 381>>,
       <<542, 537, 693, 587>>,
       <<807, 150, 914, 180>>, <<10, 10, 70, 70>> >>

\* a finger of SDL_GetTouchFinger: its id and its position, here already
\* multiplied by the canvas size as findTouchKeys does first
Finger(id, x, y) == [id |-> id, x |-> x, y |-> y]

\* findTouchKeys: the heldKey array it writes; its result is the number of the
\* entries that are true
findTouchKeys(x, y) ==
    [ k \in 1 .. key_END |->
        LET p == touchKeysMap[k]
        IN  x >= p[1] /\ x <= p[3] /\ y >= p[2] /\ y <= p[4] ]

keysCount(heldKey) == Cardinality({ k \in 1 .. key_END : heldKey[k] })

updateKeyValue(keys, key, state) == IF state THEN keys \cup {key} ELSE keys \ {key}

\* updateFingerKeyState on the controller's m_current_keys and
\* m_current_extra_keys; the alive flag it writes to the finger state is
\* overwritten by each of its callers before it is read
updateFingerKeyState(c, keyCommand, setState) ==
    LET key   == Commands[keyCommand]
        keys  == c.m_current_keys
        extra == c.m_current_extra_keys
    IN  CASE key = "run" ->
               [c EXCEPT !.m_current_extra_keys.keyRunOnce = setState /\ "run" \notin keys,
                         !.m_current_keys = updateKeyValue(keys, key, setState)]
          [] key = "altrun" ->
               [c EXCEPT !.m_current_extra_keys.keyAltRunOnce =
                             setState /\ "altrun" \notin keys,
                         !.m_current_keys = updateKeyValue(keys, key, setState)]
          [] key = "toggleKeysView" ->
               [c EXCEPT !.m_current_extra_keys.keyToggleViewOnce =
                             setState /\ ~extra.keyToggleView,
                         !.m_current_extra_keys.keyToggleView = setState]
          [] key = "holdRun" ->
               [c EXCEPT !.m_current_extra_keys.keyHoldRunOnce =
                             setState /\ ~extra.keyHoldRun,
                         !.m_current_extra_keys.keyHoldRun = setState]
          [] OTHER ->
               [c EXCEPT !.m_current_keys = updateKeyValue(keys, key, setState)]

\* the loop over the keys for one finger, from key on: known is true for a
\* finger found in m_fingers, which also sets keys off, and false for a new one
RECURSIVE FingerKeys(_, _, _, _)
FingerKeys(c, fs, known, key) ==
    IF key > key_END THEN [c |-> c, fs |-> fs]
    ELSE LET k   == IF c.m_touchHidden /\ key # key_toggleKeysView
                    THEN key_toggleKeysView ELSE key
             off == known /\ fs.heldKeyPrev[k] /\ ~fs.heldKey[k]
             on  == ~off /\ fs.heldKey[k]
             c1  == IF off THEN updateFingerKeyState(c, k, FALSE)
                    ELSE IF on THEN updateFingerKeyState(c, k, TRUE)
                    ELSE c
             fs1 == IF off \/ on THEN [fs EXCEPT !.heldKeyPrev[k] = fs.heldKey[k]]
                    ELSE fs
         IN  FingerKeys(c1, fs1, known, k + 1)

\* the body of the loop over the fingers of the device, for the finger f
TouchFinger(c, f) ==
    IF f.id < 0 THEN c
    ELSE LET known == f.id \in DOMAIN c.m_fingers
             held  == findTouchKeys(f.x, f.y)
             st    == IF known THEN [c.m_fingers[f.id] EXCEPT !.heldKey = held]
                      ELSE [NewFingerState EXCEPT !.heldKey = held]
             r     == FingerKeys(c, st, known, 1)
             fs    == [r.fs EXCEPT !.alive = keysCount(held) > 0]
         IN  IF known \/ fs.alive
             THEN [r.c EXCEPT !.m_fingers =
                       [i \in DOMAIN c.m_fingers \cup {f.id} |->
                           IF i = f.id THEN fs ELSE c.m_fingers[i]]]
             ELSE r.c

RECURSIVE TouchFingers(_, _)
TouchFingers(c, fingers) ==
    IF fingers = <<>> THEN c
    ELSE TouchFingers(TouchFinger(c, Head(fingers)), Tail(fingers))

\* a finger that is not alive sets every key off
RECURSIVE ReleaseKeys(_, _)
ReleaseKeys(c, key) ==
    IF key > key_END THEN c
    ELSE ReleaseKeys(updateFingerKeyState(c, key, FALSE), key + 1)

\* the loop that erases the fingers that are not alive
RECURSIVE EraseDead(_, _)
EraseDead(c, ids) ==
    IF ids = {} THEN c
    ELSE LET id == CHOOSE i \in ids : \A j \in ids : i <= j
             c1 == IF c.m_fingers[id].alive THEN c
                   ELSE [ReleaseKeys(c, 1) EXCEPT !.m_fingers =
                            [i \in DOMAIN c.m_fingers \ {id} |-> c.m_fingers[i]]]
         IN  EraseDead(c1, ids \ {id})

\* processTouchDevice with the fingers SDL reports for the device, in the
\* order of their indices
processTouchDevice(c, fingers) ==
    LET c0 == [c EXCEPT !.m_fingers =
                  [i \in DOMAIN c.m_fingers |-> [c.m_fingers[i] EXCEPT !.alive = FALSE]]]
        c1 == TouchFingers(c0, fingers)
        c2 == EraseDead(c1, DOMAIN c1.m_fingers)
        c3 == IF c2.m_current_extra_keys.keyToggleViewOnce
              THEN [c2 EXCEPT !.m_touchHidden = ~c2.m_touchHidden] ELSE c2
    IN  IF c3.m_current_extra_keys.keyHoldRunOnce
        THEN [c3 EXCEPT !.m_runHeld = ~c3.m_runHeld] ELSE c3

\* update() on the device in use
ProcessTouchDeviceAct(fingers) ==
    /\ touch' = processTouchDevice(touch, fingers)
    /\ op' = Op("processTouchDevice", 0, fingers, {})
    /\ calls' = <<>>
    /\ UNCHANGED << frameVars, layerVars, s_cur_target, texVars, backendVars, histVars,
                    ret >>

-----------------------------------------------------------------------------
(* Initial states *)

Pics == 1 .. NumTex

ZeroSubTex ==
    [ width |-> 0, height |-> 0, left |-> <<0, 1>>, top |-> <<0, 1>>,
      right |-> <<0, 1>>, bottom |-> <<0, 1>> ]

InitOp(name) ==
    [ name |-> name, tex |-> 0, args |-> <<>>, in_frame |-> FALSE, frame |-> 0,
      extra |-> {} ]

\* the state init() leaves: the zero-initialised globals, the three screen
\* targets, and the composition layers created by the first updateViewport()
InitWith(ScreenW, ScreenH, swap) ==
    LET c == s_createSceneTargets([i \in Layers |-> FALSE],
                                  [i \in Layers |-> [w |-> 0, h |-> 0]],
                                  [i \in Layers |-> ZeroSubTex],
                                  ScreenW, ScreenH, swap)
    IN  /\ g_in_frame = FALSE
        /\ s_current_frame = 0
        /\ g_screen_swapped = swap
        /\ s_single_layer_mode = c.single
        /\ s_tex_w = c.s_tex_w
        /\ s_tex_h = c.s_tex_h
        /\ s_tex_show_w = c.s_tex_show_w
        /\ s_layer_targets = c.targets
        /\ s_layer_texs = c.texs
        /\ s_layer_subtexs = c.subtexs
        /\ s_cur_target = Null
        /\ s_num_textures_loaded = 0
        /\ pics = [i \in Pics |-> NewPic]
        /\ frame_open = FALSE
        /\ scene = Null
        /\ layer_clears = [i \in Layers |-> 0]
        /\ layer_dirty = [i \in Layers |-> FALSE]
        /\ op = InitOp("init")
        /\ touch = NewController
        /\ ret = <<>>
        /\ calls = c.calls

Init == \E r \in Resolutions : \E swap \in BOOLEAN : InitWith(r[1], r[2], swap)

-----------------------------------------------------------------------------
(* Specification of the renderer: the frame controller, the render targets, *)
(* the repaint stage and the draw primitives, with one eagerly loaded picture *)

FramePaths == { "nosize" }
FrameBlits == { BlitArgs(0, 0, 32, 32, 0, 0, 32, 16, 0, NoCenter, 0) }

Next ==
    \/ setTargetTexture
    \/ setTargetScreen
    \/ setTargetMainScreen
    \/ setTargetSubScreen
    \/ \E layer \in Layers : \E vp \in Viewports : setTargetLayer(layer, vp)
    \/ \E vp \in Viewports : ApplyViewport(vp)
    \/ \E r \in Rects : RenderBoxFilled(r)
    \/ clearBuffer
    \/ \E LevelEditor \in BOOLEAN : \E MagicHand \in BOOLEAN :
       \E editorActive \in BOOLEAN : \E depth \in Depths :
          repaint(LevelEditor, MagicHand, editorActive, depth)
    \/ repaintIdle
    \/ \E r \in Resolutions : \E swap \in BOOLEAN : minport_ApplyPhysCoords(r[1], r[2], swap)
    \/ \E path \in FramePaths : LoadPictureAct(1, path, TRUE)
    \/ DeleteTextureAct(1)
    \/ \E a \in FrameBlits : RenderTexture(1, a)

Spec == Init /\ [][Next]_vars

-----------------------------------------------------------------------------
(* Specification of the texture loader: the texture operations on NumTex     *)
(* pictures                                                                  *)

\* picture 1 goes through every texture operation; the pictures after it are
\* lazy sprites of the same scene, loaded on demand and evicted under pressure
TexPaths == { "", "small", "huge", "nosize" }
OtherPaths == { "small" }
TexBlits == { BlitArgs(8, 8, 32, 100, 0, 900, 32, 200, 90, Center(3, 3), 1) }
ListEntry(name, nread, w, h) == [name |-> name, nread |-> nread, w |-> w, h |-> h]
ListEntries == { ListEntry("none", 0, 0, 0), ListEntry("long", 0, 0, 0),
                 ListEntry("ok", 1, 64, 0), ListEntry("ok", 2, 64, 9000),
                 ListEntry("ok", 2, 64, 32) }

InitTex ==
    /\ InitWith(800, 480, FALSE)

NextTex ==
    \/ \E path \in TexPaths : \E active \in BOOLEAN : LoadPictureAct(1, path, active)
    \/ \E i \in Pics : \E path \in (IF i = 1 THEN TexPaths ELSE OtherPaths) :
       \E active \in BOOLEAN :
          LazyLoadPictureAct(i, path, active)
    \/ \E e \in ListEntries : \E active \in BOOLEAN :
          LazyLoadPictureFromListAct(1, "small", e, active)
    \/ \E i \in Pics : LazyLoadAct(i)
    \/ LazyUnLoadAct(1)
    \/ DeleteTextureAct(1)
    \/ \E a \in TexBlits : RenderTexture(1, a)

SpecTex == InitTex /\ [][NextTex]_vars

-----------------------------------------------------------------------------
(* Specification of the lazy constructors: one picture, built from a size    *)
(* file or from a load-list entry, made resident, unloaded and deleted       *)

\* the decimal digit d as a character, and n as four zero-padded digits
Digit(d) == << "0", "1", "2", "3", "4", "5", "6", "7", "8", "9" >>[d + 1]
FourDigits(n) ==
    << Digit(n \div 1000), Digit((n \div 100) % 10), Digit((n \div 10) % 10), Digit(n % 10) >>
\* the size file the asset converter writes for an image of W x H
SizeFile(W, H) == FourDigits(W) \o << "\n" >> \o FourDigits(H) \o << "\n" >>

SizeWidths  == { 0, 64, 9999 }
SizeHeights == { 0, 32, 1024, 1500, 2048, 2049, 4096, 4097, 9999 }
WellFormedFiles == { SizeFile(W, H) : W \in SizeWidths, H \in SizeHeights }
\* size files that are not two 4-digit fields: too short, empty, a 5-digit field
MalformedFiles == { << "6", "4", "\n", "3", "2", "\n" >>,
                    << >>,
                    << "1", "2", "3", "4", "5", "\n", "6", "7", "8", "\n" >> }

LazyEntries == { ListEntry("ok", 2, 64, h) : h \in { 0, 1500, 2049, 4097, 8192, 8193 } }
                  \cup { ListEntry("ok", 2, 0, 32), ListEntry("ok", 1, 64, 0) }

InitLazy == InitWith(800, 480, FALSE)

NextLazy ==
    \/ \E bytes \in WellFormedFiles \cup MalformedFiles :
          LazyLoadPictureFileAct(1, "image", TRUE, bytes, TRUE)
    \/ \E active \in BOOLEAN : LazyLoadPictureFileAct(1, "image", FALSE, << >>, active)
    \/ \E e \in LazyEntries : LazyLoadPictureFromListAct(1, "image", e, TRUE)
    \/ LazyLoadAct(1)
    \/ LazyUnLoadAct(1)
    \/ DeleteTextureAct(1)

SpecLazy == InitLazy /\ [][NextLazy]_vars

-----------------------------------------------------------------------------
(* Specification of the sprite blit: one lazy picture, 64 or 9999 high, made *)
(* resident with whatever bands load, and drawn from source rectangles at    *)
(* the multiples of its half height and across the band boundaries           *)

BlitHeights == { 64, 9999 }
BlitSourceRows == { <<0, 16>>, <<32, 16>>, <<64, 16>>, <<96, 16>>, <<128, 16>>,
                    <<900, 200>>, <<1900, 200>>, <<1024, 200>>, <<2100, 200>> }
BlitTurns == { <<0, NoCenter>>, <<90, NoCenter>>, <<90, Center(3, 3)>> }
BlitInputs ==
    { BlitArgs(8, 8, 32, 101, 0, r[1], 32, r[2], t[1], t[2], flip) :
        r \in BlitSourceRows, t \in BlitTurns, flip \in { 0, 1, 2 } }

InitBlit == InitWith(800, 480, FALSE)

NextBlit ==
    \/ \E h \in BlitHeights :
          LazyLoadPictureFileAct(1, "image", TRUE, SizeFile(64, h), TRUE)
    \/ LazyLoadAct(1)
    \/ DeleteTextureAct(1)
    \/ \E a \in BlitInputs : RenderTexture(1, a)

SpecBlit == InitBlit /\ [][NextBlit]_vars

-----------------------------------------------------------------------------
(* Specification of the vertical tiling: one lazy picture of height 0, 1, 64 *)
(* or 65 is drawn from rows above, inside and below its half height          *)

WrapHeights == { 0, 1, 64, 65 }
WrapSourceRows == { -16, 0, 1, 15, 31, 32, 33, 63, 64, 95, 96, 127, 128, 129, 160, 900 }
WrapInputs ==
    { BlitArgs(8, 8, 32, 16, 0, r, 32, 16, 0, NoCenter, flip) :
        r \in WrapSourceRows, flip \in 0 .. 3 }

InitWrap == InitWith(800, 480, FALSE)

NextWrap ==
    \/ \E h \in WrapHeights :
          LazyLoadPictureFileAct(1, "image", TRUE, SizeFile(64, h), TRUE)
    \/ LazyLoadAct(1)
    \/ DeleteTextureAct(1)
    \/ \E a \in WrapInputs : RenderTexture(1, a)

SpecWrap == InitWrap /\ [][NextWrap]_vars

-----------------------------------------------------------------------------
(* Specification of the band split: one lazy picture of three bands, some of *)
(* which may fail to load, is drawn from rows around the band boundaries     *)
(* with source heights that are negative, zero and positive                  *)

SplitSourceRows == { 0, 1000, 1023, 1024, 1030, 2000, 2047, 2048, 2058, 2100 }
SplitSourceHeights == { -30, -10, 0, 1, 24, 100, 1100 }
SplitInputs ==
    { BlitArgs(8, 8, 32, 101, 0, y, 32, h, 0, NoCenter, 0) :
        y \in SplitSourceRows, h \in SplitSourceHeights }

InitSplit == InitWith(800, 480, FALSE)

NextSplit ==
    \/ LazyLoadPictureFileAct(1, "image", TRUE, SizeFile(64, 9999), TRUE)
    \/ LazyLoadAct(1)
    \/ DeleteTextureAct(1)
    \/ \E a \in SplitInputs : RenderTexture(1, a)

SpecSplit == InitSplit /\ [][NextSplit]_vars

-----------------------------------------------------------------------------
(* Specification of the viewport: the target selections and                  *)
(* minport_ApplyViewport under viewports that lie before, inside and beyond   *)
(* the framebuffers, with extents that are empty, one pixel and larger than   *)
(* any framebuffer                                                            *)

ViewOrigins == { -8, 100, 600 }
ViewWidths  == { 0, 1, 2000 }
ViewHeights == { -5, 1, 300 }
ViewViewports ==
    { Viewport(x, y, w, h, FALSE) :
        x \in ViewOrigins, y \in ViewOrigins, w \in ViewWidths, h \in ViewHeights }

NextView ==
    \/ setTargetMainScreen
    \/ setTargetSubScreen
    \/ setTargetTexture
    \/ \E layer \in Layers : \E vp \in ViewViewports : setTargetLayer(layer, vp)
    \/ \E vp \in ViewViewports : ApplyViewport(vp)

SpecView == Init /\ [][NextView]_vars

-----------------------------------------------------------------------------
(* Specification of the touch-screen controller: update after update with up *)
(* to two fingers that rest, move between keys, come down and are lifted      *)

FingerIds == { 1, 2 }
\* on left alone, on left and up, on run, on holdRun, on toggleKeysView and on
\* no key
TouchPoints == { <<50, 450>>, <<50, 400>>, <<850, 480>>, <<850, 160>>, <<40, 40>>,
                 <<500, 300>> }
TouchInputs ==
    { <<>> }
    \cup { << Finger(i, p[1], p[2]) >> : i \in FingerIds, p \in TouchPoints }
    \cup UNION { { << Finger(i, p[1], p[2]), Finger(j, q[1], q[2]) >> :
                     j \in FingerIds \ {i}, p \in TouchPoints, q \in TouchPoints } :
                   i \in FingerIds }

InitTouch == InitWith(800, 480, FALSE)

NextTouch == \E fingers \in TouchInputs : ProcessTouchDeviceAct(fingers)

SpecTouch == InitTouch /\ [][NextTouch]_vars

-----------------------------------------------------------------------------
(* Specification of the render-target manager alone: minport_ApplyPhysCoords *)
(* called again and again while ScreenW, ScreenH and the swap mode change or *)
(* stay the same                                                             *)

ScreenWidths  == { 2, 512, 514, 1024, 1026, 2048, 4100 }
ScreenHeights == { 2, 512, 514, 1024, 1200, 2048 }

InitRes == InitWith(800, 480, FALSE)

NextRes ==
    \/ /\ op.name # "quit"
       /\ \E ScreenW \in ScreenWidths : \E ScreenH \in ScreenHeights :
          \E swap \in BOOLEAN :
             minport_ApplyPhysCoords(ScreenW, ScreenH, swap)
    \/ quit

SpecRes == InitRes /\ [][NextRes]_vars

-----------------------------------------------------------------------------
(* Specification of the shutdown: the pictures are built lazily, made         *)
(* resident and deleted, and quit() ends the run                              *)

QuitPaths == { "small", "huge" }

InitQuit == InitWith(800, 480, FALSE)

\* nothing is called after quit()
Running == op.name # "quit"

NextQuit ==
    \/ Running /\ \E i \in Pics : \E path \in QuitPaths : LazyLoadPictureAct(i, path, TRUE)
    \/ Running /\ \E i \in Pics : LazyLoadAct(i)
    \/ Running /\ \E i \in Pics : DeleteTextureAct(i)
    \/ quit

SpecQuit == InitQuit /\ [][NextQuit]_vars

-----------------------------------------------------------------------------
(* Specification of the coordinate mapping: one physical point is mapped to  *)
(* the game screen, and the result is mapped back under the same globals     *)

MapXs == { -41, -40, -1, 0, 1, 7, 39, 40, 159, 160, 319, 399 }
MapYs == { -1, 0, 1, 7, 119, 239 }
\* g_screen_phys_x, g_screen_phys_y, g_screen_phys_w, g_screen_phys_h
PhysRects == { <<0, 0, 400, 240>>, <<40, 0, 320, 240>>, <<13, 7, 373, 226>> }
\* ScreenW, ScreenH
MapScreens == { <<400, 240>>, <<800, 480>>, <<1280, 720>>, <<641, 359>> }
MapEnvs ==
    { MapEnv(editor, swapped, r[1], r[2], r[3], r[4], w[1], w[2]) :
        editor \in BOOLEAN, swapped \in BOOLEAN, r \in PhysRects, w \in MapScreens }

InitMap == InitWith(800, 480, FALSE)

NextMap ==
    \/ /\ op.name = "init"
       /\ \E x \in MapXs : \E y \in MapYs : \E e \in MapEnvs : MapToScreenAct(x, y, e)
    \/ op.name = "mapToScreen" /\ MapFromScreenAct(ret[1], ret[2], op.extra)

SpecMap == InitMap /\ [][NextMap]_vars

-----------------------------------------------------------------------------
(* Specification of the eviction: one picture, built eagerly or lazily, is    *)
(* given frame dimensions, made resident, unloaded, loaded again and deleted  *)

EvictPaths == { "small", "huge", "nosize" }
FrameSizes == { <<32, 16>> }

InitEvict == InitWith(800, 480, FALSE)

NextEvict ==
    \/ \E path \in EvictPaths : LoadPictureAct(1, path, TRUE)
    \/ \E path \in EvictPaths : LazyLoadPictureAct(1, path, TRUE)
    \/ \E f \in FrameSizes : SetFrameSize(1, f[1], f[2])
    \/ LazyLoadAct(1)
    \/ LazyUnLoadAct(1)
    \/ DeleteTextureAct(1)

SpecEvict == InitEvict /\ [][NextEvict]_vars

-----------------------------------------------------------------------------
(* Properties of the frame controller and of the repaint stage, under Spec *)

SelectOps == { "setTargetTexture", "setTargetMainScreen", "setTargetSubScreen",
               "setTargetLayer" }
DrawOps == { "minport_RenderBoxFilled", "minport_RenderTexturePrivate" }

\* the last operation was a repaint() that found the state InFrame
InFrameRepaint == op.name = "repaint" /\ op.in_frame
\* the last operation was a clearBuffer() that found the state Idle
IdleClearBuffer == op.name = "clearBuffer" /\ ~op.in_frame

\* the physical targets the last operation composited layers onto
Composited == { calls[k].t : k \in { j \in 1 .. Len(calls) : IsLayerDraw(calls[j]) } }

\* the last operation issued a backend draw command
IssuedDraw == \E k \in 1 .. Len(calls) : calls[k].f \in DrawNames

\* C1: a repaint() that found the state InFrame advances s_current_frame by
\* exactly one and leaves the state Idle; every other operation, repaint()
\* in state Idle included, leaves the counter as it was and never moves
\* InFrame to Idle.
C1_FrameCounter ==
    IF InFrameRepaint
    THEN s_current_frame = op.frame + 1 /\ ~g_in_frame
    ELSE s_current_frame = op.frame /\ (op.in_frame => g_in_frame)

\* C1: the second frame has been presented
C1_SecondFramePresented == InFrameRepaint /\ op.frame = 1 /\ s_current_frame = 2

\* C2: a target selection made while Idle moves the state to InFrame and
\* clears every composition layer in use and the bottom screen before it
\* selects the target; one made while InFrame clears no composition layer;
\* so no draw lands on a composition layer that was not cleared in the frame,
\* and every layer repaint() composites was cleared exactly once in the frame
\* and before the draws on it.
C2_LayersClearedOncePerFrame ==
    /\ (op.name \in SelectOps /\ ~op.in_frame) =>
          /\ g_in_frame
          /\ \A t \in { LayerPtr(LoopLayers(s_single_layer_mode)[j]) :
                          j \in 1 .. Len(LoopLayers(s_single_layer_mode)) } \cup { Bottom } :
                \E k \in 1 .. (FirstIdx(calls, "C2D_SceneBegin") - 1) :
                    calls[k] = Call("C2D_TargetClear", t, <<0, 0, 0, 0>>)
    /\ (op.name \in SelectOps /\ op.in_frame) =>
          \A k \in 1 .. Len(calls) :
              ~(calls[k].f = "C2D_TargetClear" /\ calls[k].t.k = "layer")
    /\ \A i \in Layers : ~layer_dirty[i]
    /\ InFrameRepaint => op.extra = {}

\* C3 (as amended): a draw primitive performs no transition from Idle to
\* InFrame: it leaves the in-frame flag as it found it and makes no call
\* that begins a frame or clears a target, and the filled rectangle issues its
\* one draw command on the current scene whatever the flag is.
C3_DrawLeavesFrameState ==
    op.name \in DrawOps =>
        /\ g_in_frame = op.in_frame
        /\ s_current_frame = op.frame
        /\ Names(calls) \cap { "minport_initFrame", "C3D_FrameBegin", "C3D_FrameEnd",
                               "C2D_TargetClear", "C2D_SceneBegin" } = {}
        /\ op.name = "minport_RenderBoxFilled" =>
              /\ Len(calls) = 1
              /\ calls[1].f = "C2D_DrawRectSolid"
              /\ calls[1].t = scene

\* C3: a sprite blit invoked in state Idle has issued its draw command
C3_BlitDrawnWhileIdle ==
    /\ op.name = "minport_RenderTexturePrivate"
    /\ ~op.in_frame
    /\ IssuedDraw

\* C3 (as claimed): a draw primitive invoked while Idle performs the
\* transition to InFrame first, so that no draw command is issued while the
\* in-frame flag is false.
C3_DrawBeginsFrame ==
    (op.name \in DrawOps /\ ~op.in_frame /\ IssuedDraw) => g_in_frame

\* C4 (as amended): C3D_FrameEnd is called by a repaint() that found the state
\* InFrame, once and as its last call, and by a clearBuffer() that found the
\* state Idle, which begins and ends a backend frame of its own and leaves the
\* in-frame flag and the frame counter alone; no other operation calls it, and
\* clearBuffer() in state InFrame makes no backend call.
C4_FrameEndOnlyInRepaintOrIdleClear ==
    /\ ("C3D_FrameEnd" \in Names(calls)) <=> (InFrameRepaint \/ IdleClearBuffer)
    /\ InFrameRepaint =>
          /\ Count(calls, "C3D_FrameEnd") = 1
          /\ calls[Len(calls)].f = "C3D_FrameEnd"
          /\ "C3D_FrameBegin" \notin Names(calls)
    /\ IdleClearBuffer =>
          /\ Count(calls, "C3D_FrameBegin") = 1
          /\ Count(calls, "C3D_FrameEnd") = 1
          /\ calls[1].f = "C3D_FrameBegin"
          /\ calls[Len(calls)].f = "C3D_FrameEnd"
          /\ ~g_in_frame
          /\ s_current_frame = op.frame
    /\ (op.name = "clearBuffer" /\ op.in_frame) => calls = <<>>

\* C4: clearBuffer() in state Idle has begun and ended a backend frame
C4_ClearBufferOwnFrame ==
    /\ IdleClearBuffer
    /\ "C3D_FrameBegin" \in Names(calls)
    /\ "C3D_FrameEnd" \in Names(calls)

\* C4 (as claimed): every C3D_FrameEnd happens inside a repaint() that found
\* the state InFrame.
C4_FrameEndOnlyInRepaint ==
    ("C3D_FrameEnd" \in Names(calls)) => InFrameRepaint

\* C5 (as amended): repaint() in state InFrame composites onto the targets of
\* exactly one branch, chosen by the priority: (a) swapped, LevelEditor or
\* MagicHand, and editor screen active: top; else (b) swapped: bottom; else
\* (c) LevelEditor and editor screen not active: bottom; else (d) depth <= 0.05
\* or single-layer mode: top; else (e) top and right; with depth 0 it is one
\* target.
C5_BranchPriority ==
    InFrameRepaint =>
        LET le == op.args[1] = 1
            mh == op.args[2] = 1
            ea == op.args[3] = 1
            depth == op.args[4]
            expected ==
                IF g_screen_swapped /\ (le \/ mh) /\ ea THEN { Top }
                ELSE IF g_screen_swapped THEN { Bottom }
                ELSE IF le /\ ~ea THEN { Bottom }
                ELSE IF depth <= 5 \/ s_single_layer_mode THEN { Top }
                ELSE { Top, Right }
        IN  /\ Composited = expected
            /\ Count(calls, "C2D_SceneBegin") = Cardinality(expected)
            /\ depth = 0 => Cardinality(Composited) = 1

\* C5: swapped, editor screen active, neither LevelEditor nor MagicHand: the
\* layers went to the bottom screen
C5_SwappedActiveNoEditor ==
    /\ InFrameRepaint
    /\ g_screen_swapped
    /\ op.args[1] = 0 /\ op.args[2] = 0 /\ op.args[3] = 1
    /\ Composited = { Bottom }

\* C5 (as claimed): the same priority with (a) screen-swapped and editor
\* screen active: top.
C5_BranchPriorityAsClaimed ==
    InFrameRepaint =>
        LET le == op.args[1] = 1
            ea == op.args[3] = 1
            depth == op.args[4]
            expected ==
                IF g_screen_swapped /\ ea THEN { Top }
                ELSE IF g_screen_swapped THEN { Bottom }
                ELSE IF le /\ ~ea THEN { Bottom }
                ELSE IF depth <= 5 \/ s_single_layer_mode THEN { Top }
                ELSE { Top, Right }
        IN  /\ Composited = expected
            /\ depth = 0 => Cardinality(Composited) = 1

\* the last operation was a repaint() through the stereo branch
Stereo == InFrameRepaint /\ Composited = { Top, Right }

\* the source offset of layer `layer` in the composition onto target t
StereoOffsets(t, layer) ==
    { DrawSrcX(calls[k]) : k \in { j \in 1 .. Len(calls) :
                                      /\ IsLayerDraw(calls[j])
                                      /\ calls[j].t = t
                                      /\ DrawLayer(calls[j]) = layer } }

\* C6 (as amended): in the stereo branch each of the four layers is
\* composited once onto the left-eye and once onto the right-eye target, and,
\* the base shift being 0, with offset 0 on both: no layer is separated
\* between the eyes.
C6_StereoOffsetsAreZero ==
    Stereo =>
        \A layer \in Layers : \A t \in { Top, Right } :
            /\ Cardinality({ k \in 1 .. Len(calls) :
                               /\ IsLayerDraw(calls[k])
                               /\ calls[k].t = t
                               /\ DrawLayer(calls[k]) = layer }) = 1
            /\ StereoOffsets(t, layer) = { 0 }

\* C6: the stereo branch taken with the slider at 0.3
C6_StereoAtDepth30 == Stereo /\ op.args[4] = 30

\* C6 (as claimed): in the stereo branch layer 0's offsets on the two eye
\* targets are non-zero and of opposite sign, and layer 2's are 0.
C6_StereoSeparation ==
    Stereo =>
        /\ \A l \in StereoOffsets(Top, 0) : \A r \in StereoOffsets(Right, 0) : l * r < 0
        /\ StereoOffsets(Top, 2) = { 0 }
        /\ StereoOffsets(Right, 2) = { 0 }

-----------------------------------------------------------------------------
(* Properties of the texture loader, under SpecTex *)

\* the operations that reach lazyLoad
LazyOps == { "lazyLoad", "minport_RenderTexturePrivate", "lazyLoadPicture" }
\* the operations on an existing picture
PictureOps == { "lazyLoad", "lazyUnLoad", "deleteTexture", "minport_RenderTexturePrivate" }

\* C7: a picture that is not inited holds none of the three sprite sheets.
C7_NoHandleUnlessInited ==
    \A i \in Pics :
        ~pics[i].inited => ~pics[i].texture /\ ~pics[i].texture2 /\ ~pics[i].texture3

\* C7: deleteTexture has released three sprite sheets of a picture
C7_ThreeBandsDeleted ==
    /\ op.name = "deleteTexture"
    /\ Count(calls, "C2D_SpriteSheetFree") = 3
    /\ ~pics[op.tex].inited

\* the last operation reached lazyLoad, whose primary upload failed twice
PrimaryFailed ==
    /\ op.name \in LazyOps
    /\ ~pics[op.tex].inited
    /\ pics[op.tex].lazyLoaded
    /\ calls # <<>>

\* C8 (as amended): when the primary upload fails twice in one lazyLoad, the
\* loader has made exactly two upload attempts, the first and the last of its
\* calls, has read the free memory once in between, and has run the eviction
\* pass once if that reading was below 4000000 and not at all otherwise; the
\* picture is left not inited.
C8_EvictionOnlyBelowThreshold ==
    PrimaryFailed =>
        /\ Count(calls, "C2D_SpriteSheetLoad") = 2
        /\ calls[1] = Upload(op.tex, 0)
        /\ calls[Len(calls)] = Upload(op.tex, 0)
        /\ Count(calls, "linearSpaceFree") = 1
        /\ calls[2].f = "linearSpaceFree"
        /\ Count(calls, "minport_freeTextureMemory")
             = (IF calls[2].a[1] < 4000000 THEN 1 ELSE 0)

\* C8: the primary upload failed twice and no eviction pass ran
C8_FailedWithoutEviction ==
    PrimaryFailed /\ "minport_freeTextureMemory" \notin Names(calls)

\* C8 (as claimed): when the primary upload fails twice the loader has run
\* exactly one eviction pass and made exactly two attempts, whatever the free
\* memory.
C8_AlwaysOneEviction ==
    PrimaryFailed =>
        /\ Count(calls, "C2D_SpriteSheetLoad") = 2
        /\ Count(calls, "minport_freeTextureMemory") = 1

\* C9: lazyLoad on a picture whose primary sprite sheet is bound makes no
\* backend call (no upload, no eviction pass) and changes neither a picture
\* nor s_num_textures_loaded.
C9_ResidentLazyLoadIsNoOp ==
    [][ (op'.name = "lazyLoad" /\ pics[op'.tex].texture) =>
            /\ calls' = <<>>
            /\ pics' = pics
            /\ s_num_textures_loaded' = s_num_textures_loaded ]_vars

\* C9: lazyLoad was called on a resident lazy picture
C9_LazyLoadOnResident ==
    /\ op.name = "lazyLoad"
    /\ calls = <<>>
    /\ pics[op.tex].inited /\ pics[op.tex].lazyLoaded /\ pics[op.tex].texture

\* C10: lazyLoad, lazyUnLoad, deleteTexture and the sprite blit on a picture
\* that is not inited make no backend call and change neither a picture nor
\* s_num_textures_loaded.
C10_NotInitedIsNoOp ==
    [][ (op'.name \in PictureOps /\ ~pics[op'.tex].inited) =>
            /\ calls' = <<>>
            /\ pics' = pics
            /\ s_num_textures_loaded' = s_num_textures_loaded ]_vars

\* C10: an operation was called on a picture whose load had failed
C10_OperationOnFailed ==
    /\ op.name \in PictureOps
    /\ calls = <<>>
    /\ ~pics[op.tex].inited
    /\ pics[op.tex].path # ""

-----------------------------------------------------------------------------
(* Properties of the eager and lazy constructors *)

NoHandle(tx) == ~tx.texture /\ ~tx.texture2 /\ ~tx.texture3

\* the calls of the last operation hold call x
Called(x) == \E k \in 1 .. Len(calls) : calls[k] = x

\* C11: LoadPicture returns a picture with inited true exactly when the sprite
\* sheet was loaded and the primary handle is bound, and then the counter of
\* loaded textures went up by one; for an empty path, a closed game or a
\* failed load the picture has inited false and no handle, and the counter
\* is what it was before the call.
C11_LoadPictureResult ==
    [][ op'.name = "LoadPicture" =>
          LET i  == op'.tex
              tx == pics'[i]
              loaded == \E k \in 1 .. Len(calls') : calls'[k] = GetImage(i, 0)
          IN  /\ tx.inited <=> (loaded /\ tx.texture)
              /\ tx.inited => s_num_textures_loaded' = s_num_textures_loaded + 1
              /\ ~tx.inited => /\ NoHandle(tx)
                               /\ s_num_textures_loaded' = s_num_textures_loaded
              /\ (op'.args[1] = 0 \/ tx.path = "") => ~tx.inited /\ calls' = <<>> ]_vars

\* a LoadPicture whose sprite sheet could not be loaded
C11_LoadPictureFailed ==
    /\ op.name = "LoadPicture"
    /\ Called(Upload(op.tex, 0))
    /\ ~pics[op.tex].inited

WithSizeFile == op.name = "lazyLoadPicture" /\ Len(op.args) = 3 /\ op.args[2] = 1

\* C12: when the size file holds W and H as two 4-digit zero-padded decimal
\* numbers, each followed by a newline, lazyLoadPicture returns a picture with
\* w = W and h = H, inited and lazy, with no backend call made and no handle
\* bound.
C12_SidecarRoundTrip ==
    \A W \in SizeWidths : \A H \in SizeHeights :
        (WithSizeFile /\ op.args[1] = 1 /\ op.args[3] = SizeFile(W, H)) =>
            /\ pics[op.tex].w = W
            /\ pics[op.tex].h = H
            /\ pics[op.tex].inited /\ pics[op.tex].lazyLoaded
            /\ NoHandle(pics[op.tex])
            /\ calls = << >>

\* a picture built from the size file of a 9999 x 2049 image
C12_LargestWidthRead ==
    /\ WithSizeFile
    /\ op.args[3] = SizeFile(9999, 2049)
    /\ pics[op.tex].w = 9999

\* C13: when the size file can be opened but is malformed, lazyLoadPicture
\* falls back to the probe (lazyLoad, then lazyUnLoad), so the sheet is
\* loaded and the picture returned has the dimensions measured from the image.
C13_MalformedSidecarProbes ==
    (WithSizeFile /\ op.args[1] = 1 /\ op.args[3] \in MalformedFiles) =>
        /\ Called(Upload(op.tex, 0))
        /\ pics[op.tex].inited =>
              /\ pics[op.tex].w = SubW(pics[op.tex].path) * 2
              /\ pics[op.tex].h = SubH(pics[op.tex].path) * 2

\* C14: a picture returned by lazyLoadPicture or lazyLoadPictureFromList with
\* inited and lazyLoaded true has no backend handle and a positive width and
\* height; when the size file cannot be opened, the probe leaves the counter
\* of loaded textures as it was before the call.
C14_LazyResourceValid ==
    [][ (/\ op'.name \in { "lazyLoadPicture", "lazyLoadPictureFromList" }
         /\ pics'[op'.tex].inited
         /\ pics'[op'.tex].lazyLoaded) =>
            /\ NoHandle(pics'[op'.tex])
            /\ pics'[op'.tex].w > 0
            /\ pics'[op'.tex].h > 0
            /\ (Len(op'.args) = 3 /\ op'.args[2] = 0) =>
                  s_num_textures_loaded' = s_num_textures_loaded ]_vars

-----------------------------------------------------------------------------
(* Properties of lazyLoad's bands, under SpecLazy *)

\* the last operation was a lazyLoad that loaded the primary sprite sheet
PrimaryLoaded == op.name = "lazyLoad" /\ Called(GetImage(op.tex, 0))

\* the bands lazyLoad tried to load
Attempted == { calls[k].a[2] : k \in { j \in 1 .. Len(calls) :
                                         calls[j].f = "C2D_SpriteSheetLoad" } }

\* C15: after a lazyLoad that loaded the primary sheet of a picture whose
\* height is above 1024 and at most 2048, only band 0 was tried and bound:
\* the second and the third handle are null.
C15_OneBandUpTo2048 ==
    (PrimaryLoaded /\ pics[op.tex].h > 1024 /\ pics[op.tex].h <= 2048) =>
        /\ Attempted = { 0 }
        /\ pics[op.tex].texture
        /\ ~pics[op.tex].texture2
        /\ ~pics[op.tex].texture3

\* a picture of height 1500 made resident
C15_Height1500Resident == PrimaryLoaded /\ pics[op.tex].h = 1500 /\ pics[op.tex].texture

\* C15 as claimed: for such a height bands 0 and 1 are bound and band 2 is not.
C15_TwoBandsAbove1024 ==
    (PrimaryLoaded /\ pics[op.tex].h > 1024 /\ pics[op.tex].h <= 2048) =>
        /\ pics[op.tex].texture
        /\ pics[op.tex].texture2
        /\ ~pics[op.tex].texture3

ReleasedOthers(cs, i) ==
    Cardinality({ k \in 1 .. Len(cs) :
                    cs[k].f = "C2D_SpriteSheetFree" /\ cs[k].a[1] # i /\ cs[k].a[2] = 0 })

\* C17: a lazyLoad that loaded the primary sheet leaves the picture inited
\* with the primary handle bound and counts it once, whether or not an
\* overflow sheet failed to load; each overflow handle is bound exactly when
\* its sheet was loaded.
C17_OverflowFailureNotFatal ==
    [][ (op'.name = "lazyLoad"
         /\ \E k \in 1 .. Len(calls') : calls'[k] = GetImage(op'.tex, 0)) =>
            LET i == op'.tex
                got(band) == \E k \in 1 .. Len(calls') : calls'[k] = GetImage(i, band)
            IN  /\ pics'[i].inited
                /\ pics'[i].texture
                /\ s_num_textures_loaded' =
                      s_num_textures_loaded + 1 - ReleasedOthers(calls', i)
                /\ pics'[i].texture2 <=> got(1)
                /\ pics'[i].texture3 <=> got(2) ]_vars

\* the sheet of band 1 failed to load and the sheet of band 2 was loaded
C17_SecondBandFailed ==
    /\ PrimaryLoaded
    /\ Attempted = { 0, 1, 2 }
    /\ pics[op.tex].inited /\ pics[op.tex].texture
    /\ ~pics[op.tex].texture2
    /\ pics[op.tex].texture3

-----------------------------------------------------------------------------
(* Properties of the eviction after a load, under SpecTex *)

\* positions of the calls of function f among the calls of the last operation
At(f) == { k \in 1 .. Len(calls) : calls[k].f = f }

\* the last reading of linearSpaceFree is at position k
LastReadAt(k) == k \in At("linearSpaceFree") /\ \A j \in At("linearSpaceFree") : j <= k

\* C18: an operation in which lazyLoad loaded the primary sheet reads the free
\* memory once after its last attempt to load a sheet, and runs one eviction
\* pass after that reading exactly when the reading is below 4194304;
\* LoadPicture reads no free memory and runs no eviction pass.
C18_EvictionAfterLazyLoad ==
    /\ op.name = "LoadPicture" =>
          At("linearSpaceFree") = {} /\ At("minport_freeTextureMemory") = {}
    /\ (op.name # "LoadPicture" /\ Called(GetImage(op.tex, 0))) =>
          \E k \in 1 .. Len(calls) :
              /\ LastReadAt(k)
              /\ \A j \in At("C2D_SpriteSheetLoad") : j < k
              /\ Cardinality({ j \in At("minport_freeTextureMemory") : j > k })
                    = IF calls[k].a[1] < 4194304 THEN 1 ELSE 0

\* a lazyLoad that loaded two bands, then read 4000000 bytes free and evicted
C18_EvictedAt4000000 ==
    /\ op.name = "lazyLoad"
    /\ Called(GetImage(op.tex, 1))
    /\ \E k \in 1 .. Len(calls) :
          /\ LastReadAt(k)
          /\ calls[k] = FreeRead(4000000)
          /\ k < Len(calls)
          /\ calls[k + 1].f = "minport_freeTextureMemory"

\* C18 as claimed: every sheet that was loaded, by LoadPicture or by lazyLoad,
\* is followed at once by a reading of the free memory and, exactly when the
\* reading is below 4194304, by an eviction pass, before any other load.
C18_EvictionAfterEveryUpload ==
    \A k \in At("C2D_SpriteSheetGetImage") :
        /\ k < Len(calls)
        /\ calls[k + 1].f = "linearSpaceFree"
        /\ (calls[k + 1].a[1] < 4194304)
              <=> (k + 2 <= Len(calls) /\ calls[k + 2].f = "minport_freeTextureMemory")

-----------------------------------------------------------------------------
(* Properties of the render-target manager, under SpecRes *)

\* the last operation was minport_ApplyPhysCoords and it recreated the layers
Recreated == op.name = "minport_ApplyPhysCoords" /\ op.extra = { 1 }

\* C19: of two calls of minport_ApplyPhysCoords in a row, the second
\* recreates the layers exactly when ScreenW / 2, ScreenH / 2 or the swap
\* mode is not what it was at the first; with all three unchanged the second
\* call destroys and creates nothing.
C19_RecreateOnlyOnChange ==
    [][ (op.name = "minport_ApplyPhysCoords" /\ op'.name = "minport_ApplyPhysCoords") =>
          LET same == /\ op'.args[1] \div 2 = op.args[1] \div 2
                      /\ op'.args[2] \div 2 = op.args[2] \div 2
                      /\ op'.args[3] = op.args[3]
              made == \E k \in 1 .. Len(calls') :
                          calls'[k].f \in { "C3D_RenderTargetDelete", "C3D_TexDelete",
                                            "C3D_TexInitVRAM",
                                            "C3D_RenderTargetCreateFromTex" }
          IN  /\ (op'.extra = { 1 }) <=> ~same
              /\ made <=> ~same ]_vars

Tiers == { 256, 512, 1024 }
\* the smallest tier that is at least d
SmallestTier(d) == CHOOSE t \in Tiers : t >= d /\ \A u \in Tiers : u >= d => t <= u

\* the size requested at the last call, and the layers that call created
RequestedW == op.args[1] \div 2
RequestedH == op.args[2] \div 2
Made == CreatedLayers(s_single_layer_mode)

\* C20: when the layers are recreated for a requested size in 1..1024, the
\* allocated width is the smallest of the tiers 256, 512, 1024 that is at
\* least the requested width, and the whole width fits; the allocated height
\* is the smallest tier at least the requested height only up to 512: above
\* it the allocation stays 512 high and the surface is cut to 512 rows.
C20_AllocationTiers ==
    (Recreated /\ RequestedW \in 1 .. 1024 /\ RequestedH \in 1 .. 1024) =>
        \A l \in Made :
            /\ s_layer_texs[l].w = SmallestTier(RequestedW)
            /\ s_layer_subtexs[l].width = RequestedW
            /\ s_layer_texs[l].h = IF RequestedH <= 512 THEN SmallestTier(RequestedH)
                                    ELSE 512
            /\ s_layer_subtexs[l].height = IF RequestedH <= 512 THEN RequestedH ELSE 512

\* layers recreated for a requested height of 1024
C20_Height1024Requested == Recreated /\ RequestedH = 1024 /\ s_layer_texs[0].h = 512

\* C20 as claimed: width and height alike are allocated at the smallest tier
\* that is at least the requested dimension, so the requested surface fits.
C20_BothDimensionsRoundUp ==
    (Recreated /\ RequestedW \in 1 .. 1024 /\ RequestedH \in 1 .. 1024) =>
        \A l \in Made :
            /\ s_layer_texs[l].w = SmallestTier(RequestedW)
            /\ s_layer_texs[l].h = SmallestTier(RequestedH)
            /\ s_layer_subtexs[l].width = RequestedW
            /\ s_layer_subtexs[l].height = RequestedH

\* C21: after the layers were recreated, the logical size does not exceed the
\* allocated size, and the sub-texture of every layer that was created has the
\* logical width and height, a right edge of s_tex_w / allocated width and a
\* vertical extent (top - bottom) of s_tex_h / allocated height.
C21_SubTextureMatchesLogicalSize ==
    Recreated =>
        \A l \in Made :
            LET tex == s_layer_texs[l]
                sub == s_layer_subtexs[l]
            IN  /\ s_tex_w <= tex.w
                /\ s_tex_h <= tex.h
                /\ sub.width = s_tex_w
                /\ sub.height = s_tex_h
                /\ sub.left = << 0, 1 >> /\ sub.top = << 1, 1 >>
                /\ sub.right[1] * tex.w = s_tex_w * sub.right[2]
                /\ (sub.bottom[2] - sub.bottom[1]) * tex.h = s_tex_h * sub.bottom[2]

\* layers recreated for a size that exceeds the allocation both ways
C21_BothDimensionsClamped ==
    /\ Recreated
    /\ RequestedW = 2050 /\ s_tex_w = 1024
    /\ RequestedH = 600 /\ s_tex_h = 512

\* C22: after the layers were recreated, single-layer mode is on exactly when
\* the allocation is at least 512 wide and 512 high (the largest height there
\* is), or the screens are swapped.
C22_SingleLayerDecision ==
    Recreated =>
        (s_single_layer_mode <=>
            \/ s_layer_texs[0].w >= 512 /\ s_layer_texs[0].h = 512
            \/ op.args[3] = 1)

\* an allocation 1024 wide and 256 high, not swapped, with four layers
C22_Wide1024FourLayers ==
    /\ Recreated
    /\ op.args[3] = 0
    /\ s_layer_texs[0].w = 1024 /\ s_layer_texs[0].h = 256
    /\ ~s_single_layer_mode
    /\ \A l \in Layers : s_layer_targets[l]

\* C22 as claimed: single-layer mode is on exactly when an allocated dimension
\* is 1024 or the screens are swapped.
C22_SingleLayerAtLargestTier ==
    Recreated =>
        (s_single_layer_mode <=>
            \/ s_layer_texs[0].w = 1024
            \/ s_layer_texs[0].h = 1024
            \/ op.args[3] = 1)

Allocated == { l \in Layers : s_layer_targets[l] }

\* C23: between operations the allocated layers are layer 0 alone in
\* single-layer mode and the four layers otherwise, they all have the same
\* allocated size and the same sub-texture, and after quit() destroyed them
\* no layer is allocated.
C23_LayersAllocatedAlike ==
    /\ op.name = "quit" => Allocated = {}
    /\ op.name # "quit" =>
          /\ Allocated = Made
          /\ \A l, m \in Allocated :
                /\ s_layer_texs[l] = s_layer_texs[m]
                /\ s_layer_subtexs[l] = s_layer_subtexs[m]

\* four layers were allocated, then one in their place, then all destroyed
C23_DestroyedAfterSingleLayer ==
    /\ op.name = "quit"
    /\ s_single_layer_mode
    /\ Allocated = {}
    /\ Cardinality({ k \in 1 .. Len(calls) : calls[k].f = "C3D_TexDelete" }) = 1
    /\ s_layer_subtexs[3].width > 0

-----------------------------------------------------------------------------
(* Properties of the sprite blit, under SpecBlit *)

\* the last operation was a blit; its source row, source height, destination
\* row and height, rotation and flip flags as requested
Blit == op.name = "minport_RenderTexturePrivate"
BlitYDst == op.args[2]
BlitHDst == op.args[4]
BlitYSrc == op.args[6]
BlitHSrc == op.args[8]
BlitAngle == op.args[9]
BlitFlip == op.args[10]
\* the draws of the picture among the calls of the last operation, in order
PicDraws == { k \in 1 .. Len(calls) : IsPicDraw(calls[k]) }
HalfHeight == pics[op.tex].h \div 2

Bit0(f) == f % 2
Bit1(f) == (f \div 2) % 2

\* C24: a blit whose source row is n half heights (n = 1, 2, 3) is drawn from
\* source row 0 with the flip flags changed by n: bit 0 toggled for n = 1,
\* bit 1 toggled for n = 2, both for n = 3; after two wraps the flags are not
\* the requested ones.
C24_FlipChangesByWrapCount ==
    \A n \in 1 .. 3 :
        (Blit /\ HalfHeight > 0 /\ BlitYSrc = n * HalfHeight) =>
            \A k \in PicDraws :
                /\ PicSrcY(calls[k]) = 0
                /\ (Bit0(PicFlip(calls[k])) # Bit0(BlitFlip)) <=> (n \in { 1, 3 })
                /\ (Bit1(PicFlip(calls[k])) # Bit1(BlitFlip)) <=> (n \in { 2, 3 })

\* a blit from two half heights down, requested with flags 1 and drawn with 3
C24_TwoWrapsDrawn ==
    /\ Blit
    /\ HalfHeight = 32 /\ BlitYSrc = 64 /\ BlitFlip = 1
    /\ \E k \in PicDraws : PicFlip(calls[k]) = 3 /\ PicSrcY(calls[k]) = 0

\* C24 as claimed: one half height down the blit is drawn flipped, two half
\* heights down it is drawn with the requested flags again; from row 0 both.
C24_TwoWrapsRestoreFlip ==
    /\ (Blit /\ HalfHeight > 0 /\ BlitYSrc = HalfHeight) =>
          \A k \in PicDraws : PicSrcY(calls[k]) = 0 /\ PicFlip(calls[k]) # BlitFlip
    /\ (Blit /\ HalfHeight > 0 /\ BlitYSrc = 2 * HalfHeight) =>
          \A k \in PicDraws : PicSrcY(calls[k]) = 0 /\ PicFlip(calls[k]) = BlitFlip

\* the source row after the wraps of the vertical tiling
WrappedYSrc == FlipWrap(BlitYSrc, HalfHeight, 0)[1]
\* the source rectangle begins in band `upper` (1 or 2) and ends in the band
\* after it
Straddles(upper) ==
    /\ Blit
    /\ WrappedYSrc >= (upper - 1) * 1024
    /\ WrappedYSrc < upper * 1024
    /\ WrappedYSrc + BlitHSrc > upper * 1024
    /\ WrappedYSrc + BlitHSrc <= (upper + 1) * 1024
\* band b (1, 2, 3) of the picture of the last operation is loaded
BandLoaded(b) ==
    CASE b = 1 -> pics[op.tex].texture
      [] b = 2 -> pics[op.tex].texture2
      [] b = 3 -> pics[op.tex].texture3

\* C25: a blit whose source rectangle straddles a band boundary, both bands
\* being loaded, makes exactly two draws: the first from the upper band, from
\* the source row down to row 1024 of that band, the second from row 0 of the
\* next band with the rest of the source rows; the second destination begins
\* where the first ends, the destination heights add up to the one requested,
\* and the first is the (truncated) share of the source rows it draws.
C25_TwoDrawsAcrossBands ==
    \A upper \in 1 .. 2 :
        (Straddles(upper) /\ BandLoaded(upper) /\ BandLoaded(upper + 1)) =>
            /\ Cardinality(PicDraws) = 2
            /\ \E k1, k2 \in PicDraws :
                  LET d1 == calls[k1]
                      d2 == calls[k2]
                      rows == upper * 1024 - WrappedYSrc
                  IN  /\ k1 < k2
                      /\ PicBand(d1) = upper /\ PicBand(d2) = upper + 1
                      /\ PicSrcY(d1) = 1024 - rows /\ PicSrcH(d1) = rows
                      /\ PicSrcY(d2) = 0 /\ PicSrcH(d2) = BlitHSrc - rows
                      /\ PicDstY(d2) = PicDstY(d1) + PicDstH(d1)
                      /\ PicDstH(d1) + PicDstH(d2) = BlitHDst
                      /\ PicDstH(d1) * BlitHSrc <= rows * BlitHDst
                      /\ rows * BlitHDst < (PicDstH(d1) + 1) * BlitHSrc

\* a rotated blit across the boundary between the second and the third band
C25_SecondBoundaryCrossed ==
    /\ Straddles(2) /\ BandLoaded(2) /\ BandLoaded(3)
    /\ BlitAngle # 0
    /\ Cardinality(PicDraws) = 2

\* C26: a blit whose source rectangle straddles a band boundary while exactly
\* one of the two bands is loaded makes exactly one draw, from the loaded
\* band, of rows inside that band and onto a part only of the destination;
\* with neither band loaded it draws nothing.
C26_MissingBandSkipped ==
    \A upper \in 1 .. 2 :
        /\ (Straddles(upper) /\ BandLoaded(upper) # BandLoaded(upper + 1)) =>
              /\ Cardinality(PicDraws) = 1
              /\ \A k \in PicDraws :
                    /\ PicBand(calls[k]) = IF BandLoaded(upper) THEN upper ELSE upper + 1
                    /\ PicSrcY(calls[k]) >= 0
                    /\ PicSrcY(calls[k]) + PicSrcH(calls[k]) <= 1024
                    /\ PicDstH(calls[k]) < BlitHDst
        /\ (Straddles(upper) /\ ~BandLoaded(upper) /\ ~BandLoaded(upper + 1)) =>
              PicDraws = {}

\* positions of the calls that change the view transform
ViewChanges == At("C2D_ViewTranslate") \cup At("C2D_ViewRotateDegrees")

\* C27: a blit saves the view at most once, restores it after every save as
\* its last call, and changes the view transform only between the save and
\* the restore; without rotation, or when it returns early, it makes none of
\* these calls.
C27_ViewRestored ==
    Blit =>
        /\ Cardinality(At("C2D_ViewSave")) = Cardinality(At("C2D_ViewRestore"))
        /\ Cardinality(At("C2D_ViewSave")) <= 1
        /\ \A k \in At("C2D_ViewSave") :
              /\ calls[Len(calls)].f = "C2D_ViewRestore"
              /\ \A j \in ViewChanges : k < j
        /\ (At("C2D_ViewSave") = {}) => ViewChanges = {}
        /\ (BlitAngle = 0 \/ ~pics[op.tex].texture) => At("C2D_ViewSave") = {}

\* a rotated blit that found no band to draw, after its picture was loaded in
\* the same call
C27_RotatedNothingDrawn ==
    /\ Blit
    /\ BlitAngle # 0
    /\ Called(Upload(op.tex, 0))
    /\ PicDraws = {}
    /\ At("C2D_ViewSave") # {}

-----------------------------------------------------------------------------
(* Target selection *)

\* the target a selection call is meant to make current
SelectionOf(name, args, single) ==
    CASE name = "setTargetMainScreen" -> Top
      [] name = "setTargetSubScreen"  -> Bottom
      [] name = "setTargetTexture"    -> Layer(IF single THEN 0 ELSE 2)
      [] name = "setTargetLayer"      -> Layer(IF single THEN 0 ELSE args[1])

\* the current target is a physical screen or an allocated composition layer
CurrentAllocated ==
    \/ s_cur_target \in { Top, Bottom }
    \/ s_cur_target.k = "layer" /\ s_layer_targets[s_cur_target.n]

\* C28: each selection call sets the one current target deterministically
\* (setTargetMainScreen the top screen, setTargetSubScreen the bottom screen,
\* setTargetTexture layer 2 in multi-layer mode and layer 0 in single-layer
\* mode, setTargetLayer(n) layer n in multi-layer mode and layer 0 in
\* single-layer mode); the selected target is an allocated surface, and it
\* stays current, and allocated, until the next selection or repaint().
C28_SelectedTargetStaysCurrent ==
    [][ /\ op'.name \in SelectOps =>
              /\ s_cur_target' = SelectionOf(op'.name, op'.args, s_single_layer_mode')
              /\ CurrentAllocated'
        /\ (op'.name \notin SelectOps \cup { "repaint" } /\ s_cur_target # Null) =>
              /\ s_cur_target' = s_cur_target
              /\ CurrentAllocated' ]_vars

\* the part of C28 about the selection calls alone
C28_SelectionSetsTarget ==
    op.name \in SelectOps =>
        /\ s_cur_target = SelectionOf(op.name, op.args, s_single_layer_mode)
        /\ CurrentAllocated

-----------------------------------------------------------------------------
(* Composition of the layers *)

\* the layer draws of the last operation onto the physical target t, in order
LayerDrawsOnto(t) == SelectSeq(calls, LAMBDA c : IsLayerDraw(c) /\ c.t = t)

\* the layers a composition pass has to draw, in order
LayersInUse == IF s_single_layer_mode THEN <<0>> ELSE <<0, 1, 2, 3>>

\* C29: repaint() composites only allocated layers: onto each physical target
\* it presents on it draws exactly layer 0 in single-layer mode and layers
\* 0, 1, 2, 3 in ascending order in multi-layer mode; every layer draw is
\* un-flipped, has the unit tint (1, 1, 1, 1) and takes the logical sub-region
\* (width s_tex_show_w, height s_tex_h) as its source, and no null layer is drawn.
C29_CompositesAllocatedLayers ==
    InFrameRepaint =>
        /\ Composited # {}
        /\ \A t \in Composited :
              LET ds == LayerDrawsOnto(t)
              IN  /\ Len(ds) = Len(LayersInUse)
                  /\ \A k \in 1 .. Len(ds) : DrawLayer(ds[k]) = LayersInUse[k]
        /\ \A k \in 1 .. Len(calls) :
              IsLayerDraw(calls[k]) =>
                  /\ s_layer_targets[DrawLayer(calls[k])]
                  /\ calls[k].a[3] = 1
                  /\ calls[k].a[6] = 0
                  /\ calls[k].a[7] = s_tex_show_w
                  /\ calls[k].a[8] = s_tex_h
                  /\ calls[k].a[9] = 0
                  /\ SubSeq(calls[k].a, 10, 13) = <<1, 1, 1, 1>>

\* a repaint() in single-layer mode, which composited layer 0 alone while the
\* layers 1, 2, 3 are null
C29_SingleLayerComposited ==
    /\ InFrameRepaint
    /\ s_single_layer_mode
    /\ ~s_layer_targets[1]
    /\ \E t \in Composited : Len(LayerDrawsOnto(t)) = 1

-----------------------------------------------------------------------------
(* Shutdown, under SpecQuit *)

\* the pictures that were linked in the list of textures when quit() was called
LinkedAtQuit == { op.args[k] : k \in 1 .. Len(op.args) }

C30_QuitReleasesShortList ==
    (op.name = "quit" /\ Len(op.args) <= 1) =>
        /\ \A i \in LinkedAtQuit : NoHandle(pics[i])
        /\ s_num_textures_loaded = 0
        /\ Allocated = {}

-----------------------------------------------------------------------------
(* Eviction, under SpecEvict *)

\* picture tx with its three sprite sheets released and nothing else changed
Evicted(tx) == [tx EXCEPT !.texture = FALSE, !.texture2 = FALSE, !.texture3 = FALSE]

\* C31: lazyUnLoad of a resident lazy picture only releases its sprite sheets:
\* the three handles become null and the counter of loaded textures drops by
\* one, while inited, lazyLoaded, path, w, h, frame_w and frame_h stay as they
\* were; a successful lazyLoad that follows binds the primary handle again and
\* leaves w and h alone, in every cycle; lazyUnLoad of a picture that is not
\* lazy or not resident changes nothing.
C31_EvictionKeepsPicture ==
    [][ /\ op'.name = "lazyUnLoad" =>
              IF LazyUnLoadActs(pics[op'.tex])
              THEN /\ pics' = [pics EXCEPT ![op'.tex] = Evicted(@)]
                   /\ NoHandle(pics'[op'.tex])
                   /\ s_num_textures_loaded' = s_num_textures_loaded - 1
              ELSE /\ pics' = pics
                   /\ s_num_textures_loaded' = s_num_textures_loaded
                   /\ calls' = <<>>
        /\ ( /\ op.name = "lazyUnLoad" /\ calls # <<>>
             /\ op'.name = "lazyLoad" /\ op'.tex = op.tex
             /\ pics'[op'.tex].inited ) =>
              /\ pics'[op'.tex].texture
              /\ pics'[op'.tex].w = pics[op'.tex].w
              /\ pics'[op'.tex].h = pics[op'.tex].h
              /\ pics'[op'.tex].frame_w = pics[op'.tex].frame_w
              /\ pics'[op'.tex].frame_h = pics[op'.tex].frame_h ]_vars

\* a lazy picture with three sprite sheets and frame dimensions was evicted
C31_ThreeBandsEvicted ==
    /\ op.name = "lazyUnLoad"
    /\ Count(calls, "C2D_SpriteSheetFree") = 3
    /\ NoHandle(pics[op.tex])
    /\ pics[op.tex].inited /\ pics[op.tex].lazyLoaded
    /\ pics[op.tex].h > 4096
    /\ pics[op.tex].frame_w = 32 /\ pics[op.tex].frame_h = 16

-----------------------------------------------------------------------------
(* Coordinate mapping, under SpecMap *)

Abs(a) == IF a < 0 THEN -a ELSE a

\* C32: under the same globals mapFromScreen undoes mapToScreen up to integer
\* rounding: the point mapFromScreen gives for the result of mapToScreen(x, y)
\* is at most one pixel away from (x, y) in each coordinate, and is (x, y)
\* itself in the editor mode; for positive g_screen_phys_w and g_screen_phys_h
\* not larger than ScreenW and ScreenH.
C32_MapRoundTrip ==
    [][ ( /\ op.name = "mapToScreen" /\ op'.name = "mapFromScreen"
          /\ op'.extra = op.extra /\ op'.args = ret
          /\ op.extra.g_screen_phys_w > 0 /\ op.extra.g_screen_phys_h > 0
          /\ op.extra.ScreenW >= op.extra.g_screen_phys_w
          /\ op.extra.ScreenH >= op.extra.g_screen_phys_h ) =>
            /\ Abs(ret'[1] - op.args[1]) <= 1
            /\ Abs(ret'[2] - op.args[2]) <= 1
            /\ op.extra.editor => ret' = op.args ]_vars

\* a point left of the screen on the unswapped screen was mapped there and
\* back, and rounding moved it by one pixel
C32_RoundedByOne ==
    /\ op.name = "mapFromScreen"
    /\ ~op.extra.editor /\ ~op.extra.g_screen_swapped
    /\ op.extra.ScreenW = 641
    /\ op.args[1] < 0
    /\ mapToScreen(ret[1] - 1, ret[2], op.extra) = op.args

-----------------------------------------------------------------------------
(* The wrap loop of the vertical tiling, under SpecWrap *)

\* the number of times the wrap loop ran for the last blit
WrapCount == FlipWrap(BlitYSrc, HalfHeight, 0)[2]

-----------------------------------------------------------------------------
(* Pairing of the backend frame calls, under Spec *)

\* the calls cs from position k on, made with a backend frame open or not:
\* whether every C3D_FrameBegin came with no frame open and every
\* C3D_FrameEnd with one open, and whether a frame is open after them
RECURSIVE FramePairing(_, _, _)
FramePairing(open, cs, k) ==
    IF k > Len(cs) THEN [ok |-> TRUE, open |-> open]
    ELSE IF cs[k].f = "C3D_FrameBegin"
         THEN (IF open THEN [ok |-> FALSE, open |-> open] ELSE FramePairing(TRUE, cs, k + 1))
    ELSE IF cs[k].f = "C3D_FrameEnd"
         THEN (IF open THEN FramePairing(FALSE, cs, k + 1) ELSE [ok |-> FALSE, open |-> open])
    ELSE FramePairing(open, cs, k + 1)

\* C34: the backend frame calls are paired over every sequence of selections,
\* clearBuffer, repaint and draws: between operations a backend frame is open
\* exactly when g_in_frame is true, no operation calls C3D_FrameBegin with a
\* frame open or C3D_FrameEnd with none open, and repaint() while Idle and
\* clearBuffer() while InFrame make no backend call at all.
C34_FrameCallsPaired ==
    /\ frame_open = g_in_frame
    /\ FramePairing(op.in_frame, calls, 1) = [ok |-> TRUE, open |-> g_in_frame]
    /\ (op.name = "repaint" /\ ~op.in_frame) => calls = <<>>
    /\ (op.name = "clearBuffer" /\ op.in_frame) => calls = <<>>

\* a selection made while InFrame, in the second frame: it began no frame
C34_SelectionInsideSecondFrame ==
    /\ op.name \in SelectOps
    /\ op.in_frame /\ op.frame = 1
    /\ g_in_frame /\ frame_open
    /\ Count(calls, "C3D_FrameBegin") = 0

-----------------------------------------------------------------------------
(* The current target, under Spec *)

\* C35: s_cur_target never points to a destroyed surface: in state Idle it is
\* null, and in state InFrame it is a physical screen or a composition layer
\* that is allocated, also when minport_ApplyPhysCoords has recreated the
\* layers in the middle of the frame after a layer was selected.
C35_CurrentTargetNeverDangles ==
    /\ ~g_in_frame => s_cur_target = Null
    /\ g_in_frame => CurrentAllocated

\* the part of C35 that holds: the states in which s_cur_target dangles are
\* those a recreation in the middle of a frame has left, until the next
\* selection or repaint()
C35_DanglesOnlyAfterRecreation ==
    [][ (~C35_CurrentTargetNeverDangles)' =>
           \/ op'.name = "minport_ApplyPhysCoords" /\ op'.in_frame /\ op'.extra = { 1 }
           \/ ~C35_CurrentTargetNeverDangles /\ op'.name \notin SelectOps \cup { "repaint" }
      ]_vars

-----------------------------------------------------------------------------
(* The counter of loaded textures, under SpecTex *)

\* the pictures whose primary sprite sheet is bound
Resident == { i \in Pics : pics[i].texture }

\* C36: after every sequence of LoadPicture, lazyLoadPicture, lazyLoad,
\* lazyUnLoad and deleteTexture on a set of pictures, s_num_textures_loaded is
\* the number of pictures whose primary sprite sheet is bound, and it is
\* never negative.
C36_CounterMatchesResident ==
    /\ s_num_textures_loaded = Cardinality(Resident)
    /\ s_num_textures_loaded >= 0

\* two pictures were resident and deleteTexture has released the first
C36_OneOfTwoDeleted ==
    /\ op.name = "deleteTexture" /\ op.tex = 1
    /\ Called(Release(1, 0))
    /\ Resident = { 2 }
    /\ s_num_textures_loaded = 1

-----------------------------------------------------------------------------
(* The band split, under SpecSplit *)

\* the source row the band split starts from: past row 2048 it is counted
\* from the second band
SplitYSrc ==
    IF WrappedYSrc + BlitHSrc > 2048 THEN WrappedYSrc - 1024 ELSE WrappedYSrc

\* draw c is the draw of the upper part, the one whose destination height is
\* "(1024 - ySrc) * hDst / hSrc": it starts at the source row of the blit and
\* ends at row 1024 of its band
IsUpperPart(c) ==
    /\ IsPicDraw(c)
    /\ WrappedYSrc + BlitHSrc > 1024
    /\ PicSrcY(c) = SplitYSrc
    /\ PicSrcY(c) + PicSrcH(c) = 1024

HwViewports ==
    { [t |-> calls[k].t, rect |-> calls[k].a, scene |-> calls[k + 1].a] :
        k \in { j \in 1 .. Len(calls) - 1 : calls[j].f = "C3D_SetViewport" } }

\* the logical viewport of a hardware viewport has positive width and height
PositiveViewport(v) == v.scene[1] >= 1 /\ v.scene[2] >= 1

\* the rectangle lies inside a framebuffer of width W and height H
InsideFramebuffer(rect, W, H) ==
    /\ 0 <= rect[1] /\ 0 <= rect[2]
    /\ rect[1] + rect[3] <= W /\ rect[2] + rect[4] <= H
    /\ rect[3] >= 1 /\ rect[4] >= 1

\* C38: for a current target with a framebuffer of width W and height H and a
\* logical viewport of positive width and height, the hardware viewport that
\* minport_ApplyViewport passes to the backend lies inside the framebuffer
\* (0 <= x, 0 <= y, x + w <= W, y + h <= H, w >= 1, h >= 1), for a rotated
\* target as for an unrotated one; when Idle or without a current target no
\* viewport is set.
C38_ViewportInsideFramebuffer ==
    op.name \in { "minport_ApplyViewport", "setTargetLayer" } =>
        /\ \A v \in HwViewports :
              /\ v.t = s_cur_target
              /\ PositiveViewport(v) =>
                    LET fb == FrameBuf(v.t, s_layer_texs, CHOOSE g \in Garbage : TRUE)
                    IN  InsideFramebuffer(v.rect, fb.w, fb.h)
        /\ (~g_in_frame \/ s_cur_target = Null) => HwViewports = {}

\* a viewport that begins before a rotated screen and is larger than it has
\* been cut to the whole width of the screen
C38_RotatedViewportCut ==
    /\ op.name = "minport_ApplyViewport"
    /\ s_cur_target = Top
    /\ \E v \in HwViewports :
          /\ PositiveViewport(v)
          /\ v.scene[3] = 1
          /\ v.rect[1] = 0 /\ v.rect[3] = 240

\* the fingers of the input that touch the hit box of key number k
FingersOn(fingers, k) ==
    { fingers[n].id : n \in { m \in 1 .. Len(fingers) :
                               /\ fingers[m].id >= 0
                               /\ findTouchKeys(fingers[m].x, fingers[m].y)[k] } }

\* the keys of Controls_t that some finger of the input touches
TouchedControlKeys(fingers) ==
    { ControlKeys[k] : k \in { j \in 1 .. Len(ControlKeys) : FingersOn(fingers, j) # {} } }

\* C39: after processTouchDevice returns, every control key whose hit box is
\* touched by a finger that is still down is pressed in the controller's key
\* state, also when another finger was lifted in the same update; lifting a
\* finger releases only the keys no remaining finger holds. (Stated for updates
\* that begin with the keys shown.)
C39_TouchedKeysArePressed ==
    [][ (op'.name = "processTouchDevice" /\ ~touch.m_touchHidden) =>
            TouchedControlKeys(op'.args) \subseteq touch'.m_current_keys ]_vars

\* a finger that touches key number k in this update and did not in the last
NewlyOn(k) == FingersOn(op'.args, k) \ FingersOn(op.args, k)

\* C40: m_touchHidden and m_runHeld flip exactly once per press of their key:
\* in the update where a finger first touches the key, and never again while
\* that finger keeps holding it, whatever other fingers are pressed or lifted
\* meanwhile. (A press is counted when one finger comes down on a key that no
\* finger held before, and for holdRun when the keys are shown.)
C40_TogglesFlipOncePerPress ==
    [][ op'.name = "processTouchDevice" =>
            /\ touch'.m_touchHidden # touch.m_touchHidden
                   => NewlyOn(key_toggleKeysView) # {}
            /\ touch'.m_runHeld # touch.m_runHeld
                   => NewlyOn(key_holdRun) # {}
            /\ (Cardinality(NewlyOn(key_toggleKeysView)) = 1
                    /\ FingersOn(op.args, key_toggleKeysView) = {})
                   => touch'.m_touchHidden # touch.m_touchHidden
            /\ (Cardinality(NewlyOn(key_holdRun)) = 1
                    /\ FingersOn(op.args, key_holdRun) = {}
                    /\ ~touch.m_touchHidden)
                   => touch'.m_runHeld # touch.m_runHeld ]_vars
====
